---- MODULE Spec2Model ----
(***************************************************************************)
(* A model of the Map-intelligence core of the AutoIt extension:           *)
(*   - MapParser (src/src/parsers/MapParser.js): the scope-aware key       *)
(*     lookup over one file's text;                                        *)
(*   - MapTrackingService (src/src/services/MapTrackingService.js): the    *)
(*     path -> MapParser cache, its immediate and debounced updates and    *)
(*     the include-aware queries.                                          *)
(*                                                                         *)
(* A source text is modelled at the granularity the parser's regular       *)
(* expressions work at: a sequence of lines, each line the record of what  *)
(* the line-anchored patterns of MapParser.js capture from it.  Line       *)
(* numbers are 0-based as in the code; line n is src[n + 1].               *)
(***************************************************************************)
EXTENDS Integers, Sequences, FiniteSets, TLC

VARIABLES
    \* ---- MapTrackingService (one singleton instance)
    fileParsers,            \* this.fileParsers: path -> MapParser, NoParser when absent
    debouncedParseByFile,   \* this.debouncedParseByFile: the paths that own a debounced function
    timeout,                \* the `timeout` variable closed over by each path's debounced function
    timers,                 \* the host's pending setTimeout timers: records [id, path, source]
    nextTimerId,            \* the id the host gives the next timer
    pendingParses,          \* this.pendingParses: path -> source, NoSource when absent
    ongoingParses,          \* this.ongoingParses
    \* ---- history of the calls made on the service, per path (for stating the claims)
    history,
    \* ---- one MapParser instance queried on its own
    parser,                 \* the instance: [lines, functions], NoParser when there is none
    lastQuery,              \* the last getKeysForMapAtLine call on it and what it returned
    \* ---- the include-aware queries
    disk,                   \* the file system: path -> [status, text, includes]
    call,                   \* the include-aware query in flight: its locals and where it stands
    \* ---- IncludeResolver
    resolver,               \* the instance: its configuration and the resolveAllIncludes /
                            \* resolveIncludePath call made on it
    \* ---- ai_workspaceSymbols.js
    symbols,                \* the module's state: symbolsCache, searchDebounceTimer, the
                            \* configuration, the tokens cancelled, the index builds in
                            \* flight and the truncation warnings shown
    \* ---- ai_completion.js
    completion,             \* includeCache and the last getIncludeCompletions call
    \* ---- ai_symbols.js
    document,               \* the last provideDocumentSymbols call: the document, the
                            \* configuration and the symbols returned
    \* ---- the extension's document events (diagnosticUtils.js)
    extension               \* updateTimers, the host's pending timers of these handlers
                            \* and the text of each open document

serviceVars == <<fileParsers, debouncedParseByFile, timeout, timers, nextTimerId,
                 pendingParses, ongoingParses, history>>
parserVars == <<parser, lastQuery>>
includeVars == <<disk, call>>
resolverVars == <<resolver>>
symbolVars == <<symbols>>
providerVars == <<completion, document, extension>>
otherVars == <<resolverVars, symbolVars, providerVars>>
vars == <<serviceVars, parserVars, includeVars, otherVars>>

\* ------------------------------------------------------------------ bounds

\* Number of update calls (updateFile, updateFileDebounced, updateFileImmediate) in a run.
MaxCalls == 3
\* Number of distinct texts an update call may carry.
NumTexts == 2
\* Number of lines of a text handed to a MapParser queried on its own.
MaxLines == 5

\* ------------------------------------------------------------------ source lines

\* What the line-anchored patterns of MapParser.js capture from one line.  The patterns
\* are mutually exclusive (each is anchored at the start of the line and they begin
\* differently), so a line has one kind.
\*   mapDeclPattern (line 17): the scope keyword as written and the variable name
DeclLine(scope, name) == [kind |-> "decl", scope |-> scope, name |-> name]
\*   dotPattern (line 44): $name.key =
DotLine(name, key) == [kind |-> "dot", name |-> name, keys |-> <<key>>]
\*   bracketPattern (line 47) and the chain pattern (line 118): $name["k1"]["k2"]... =
BracketLine(name, keys) == [kind |-> "bracket", name |-> name, keys |-> keys]
\*   the dynamic-key pattern (line 147): $name[$var] =
DynamicLine(name, var) == [kind |-> "dynamic", name |-> name, keys |-> <<var>>]
\*   funcStartPattern (line 208): the function name and its parameter names
FuncLine(fname, params) == [kind |-> "func", fname |-> fname, params |-> params]
\*   funcEndPattern (line 209)
EndFuncLine == [kind |-> "endfunc"]
\*   functionCallPattern (line 385): the called name and the trimmed arguments
CallLine(fname, args) == [kind |-> "call", fname |-> fname, args |-> args]
\*   a line none of the patterns matches (a comment line among them)
OtherLine == [kind |-> "other"]

\* The keys the sample texts assign, in order.
KeyNames == <<"name", "age", "city", "zip">>

\* The i-th text an editor may hand to an update call: a declaration of $m followed
\* by i - 1 key assignments.  Distinct i give distinct texts.
EditText(i) ==
    <<DeclLine("Local", "$m")>> \o [j \in 1..(i - 1) |-> DotLine("$m", KeyNames[j])]

Texts == {EditText(i) : i \in 1..NumTexts}

\* The files of the workspace.
Paths == {"main.au3", "lib.au3", "util.au3"}
\* The files open in an editor, which receive the update calls; util.au3 is only ever
\* read as an include.
EditedPaths == {"main.au3", "lib.au3"}

NoParser == [none |-> "parser"]
NoSource == <<[none |-> "source"]>>
NoTimer == 0

\* new MapParser(source): the text, split in lines, and the empty cache of function
\* boundaries, which the first query fills.
MapParser(source) == [lines |-> source, functions |-> <<>>]

\* ------------------------------------------------------------------ MapParser

\* JavaScript's Infinity, the line an included file is queried at.  Larger than every
\* line number; Distance keeps Infinity - n = Infinity.
Infinity == 1000000

\* String.prototype.toLowerCase on the names and keywords the model writes.
LowerMap == ("$M" :> "$m") @@ ("Local" :> "local") @@ ("Global" :> "global")
            @@ ("Dim" :> "dim") @@ ("Static" :> "static") @@ ("GLOBAL" :> "global")
ToLowerCase(s) == IF s \in DOMAIN LowerMap THEN LowerMap[s] ELSE s

\* The map name matches case-insensitively: decl.name.toLowerCase() === mapName.toLowerCase()
\* (line 276) and the 'i' flag of the assignment patterns (lines 44, 47, 118, 147).
NameMatches(written, mapName) == ToLowerCase(written) = ToLowerCase(mapName)

\* parseMapDeclarations: {name, scope, line} of every declaration line, in line order.
RECURSIVE ParseMapDeclarationsFrom(_, _)
ParseMapDeclarationsFrom(lines, i) ==
    IF i > Len(lines) THEN <<>>
    ELSE (IF lines[i].kind = "decl"
          THEN <<[name |-> lines[i].name, scope |-> lines[i].scope, line |-> i - 1]>>
          ELSE <<>>) \o ParseMapDeclarationsFrom(lines, i + 1)

ParseMapDeclarations(lines) == ParseMapDeclarationsFrom(lines, 1)

\* parseNestedKeyStructure: the key chain of a bracket line, only when it has several keys.
ParseNestedKeyStructure(line, mapName) ==
    IF line.kind = "bracket" /\ NameMatches(line.name, mapName) /\ Len(line.keys) > 1
    THEN line.keys ELSE <<>>

\* parseDynamicKeysFromLine: the variable used as the key.
ParseDynamicKeysFromLine(line, mapName) ==
    IF line.kind = "dynamic" /\ NameMatches(line.name, mapName) THEN line.keys ELSE <<>>

\* The assignments parseKeyAssignments pushes for one line (lines 49-104): the chain,
\* else the dynamic keys, else dot notation, else single-bracket notation.
AssignmentsOfLine(line, index, mapName) ==
    LET nestedKeys == ParseNestedKeyStructure(line, mapName)
        dynamicKeys == ParseDynamicKeysFromLine(line, mapName)
    IN  IF nestedKeys # <<>>
        THEN <<[key |-> nestedKeys[1], line |-> index, notation |-> "bracket",
                nested |-> nestedKeys, isDynamic |-> FALSE]>>
        ELSE IF dynamicKeys # <<>>
        THEN [k \in 1..Len(dynamicKeys) |->
                [key |-> dynamicKeys[k], line |-> index, notation |-> "bracket",
                 nested |-> <<>>, isDynamic |-> TRUE]]
        ELSE IF line.kind = "dot" /\ NameMatches(line.name, mapName)
        THEN <<[key |-> line.keys[1], line |-> index, notation |-> "dot",
                nested |-> <<>>, isDynamic |-> FALSE]>>
        ELSE IF line.kind = "bracket" /\ NameMatches(line.name, mapName)
        THEN <<[key |-> line.keys[1], line |-> index, notation |-> "bracket",
                nested |-> <<>>, isDynamic |-> FALSE]>>
        ELSE <<>>

RECURSIVE ParseKeyAssignmentsFrom(_, _, _)
ParseKeyAssignmentsFrom(lines, i, mapName) ==
    IF i > Len(lines) THEN <<>>
    ELSE AssignmentsOfLine(lines[i], i - 1, mapName)
         \o ParseKeyAssignmentsFrom(lines, i + 1, mapName)

\* parseKeyAssignments(mapName)
ParseKeyAssignments(lines, mapName) == ParseKeyAssignmentsFrom(lines, 1, mapName)

NoFunc == [none |-> "function"]
NoDecl == [none |-> "declaration"]

\* parseFunctionBoundaries: one forward scan; a Func line opens a function (dropping one
\* that is still open), the next EndFunc line closes and emits it.
RECURSIVE ScanFunctions(_, _, _)
ScanFunctions(lines, i, currentFunc) ==
    IF i > Len(lines) THEN <<>>
    ELSE IF lines[i].kind = "func"
    THEN ScanFunctions(lines, i + 1,
             [name |-> lines[i].fname, startLine |-> i - 1, endLine |-> -1,
              parameters |-> lines[i].params])
    ELSE IF lines[i].kind = "endfunc" /\ currentFunc # NoFunc
    THEN <<[currentFunc EXCEPT !.endLine = i - 1]>> \o ScanFunctions(lines, i + 1, NoFunc)
    ELSE ScanFunctions(lines, i + 1, currentFunc)

\* A scan that begins as if a function were open since line 0.
ParseFunctionBoundariesFromOpen(lines) ==
    ScanFunctions(lines, 1, [name |-> "", startLine |-> 0, endLine |-> -1, parameters |-> <<>>])

\* parseFunctionBoundaries()
ParseFunctionBoundaries(lines) == ScanFunctions(lines, 1, NoFunc)

\* if (this.functions.length === 0) this.parseFunctionBoundaries() (lines 248, 264, 355, 381)
EnsureFunctions(p) ==
    IF Len(p.functions) = 0
    THEN [p EXCEPT !.functions = ParseFunctionBoundaries(p.lines)]
    ELSE p

\* Array.prototype.find: the first element satisfying Test, else the default.
FirstIndex(seq, Test(_)) ==
    IF \E k \in 1..Len(seq) : Test(seq[k])
    THEN CHOOSE k \in 1..Len(seq) : Test(seq[k]) /\ \A m \in 1..(k - 1) : ~Test(seq[m])
    ELSE 0

\* getFunctionAtLine(line)
GetFunctionAtLine(functions, line) ==
    LET Contains(func) == line >= func.startLine /\ line <= func.endLine
        k == FirstIndex(functions, Contains)
    IN  IF k = 0 THEN NoFunc ELSE functions[k]

\* targetLine - decl.line (lines 286, 294, 304)
Distance(targetLine, declLine) ==
    IF targetLine = Infinity THEN Infinity ELSE targetLine - declLine

\* A function compared to the function of the query line keeps the declaration out of it
\* only when both are absent.
SameFunctionAnyOther(declFunc, currentFunc) == declFunc # NoFunc

\* declFunc && declFunc.name === currentFunc.name (lines 284, 328)
SameFunction(declFunc, currentFunc) == declFunc # NoFunc /\ declFunc.name = currentFunc.name

\* A top-level fallback that accepts every scope keyword.
IsGlobalFallbackAnyKeyword(declFunc, scope) == declFunc = NoFunc

\* !declFunc && decl.scope.toLowerCase() === 'global' (line 291)
IsGlobalFallback(declFunc, scope) == declFunc = NoFunc /\ ToLowerCase(scope) = "global"

\* if (distance <= closestDistance) { closestDistance = distance; closestDecl = decl }
TakeIfCloser(st, decl, distance) ==
    IF distance <= st.distance THEN [decl |-> decl, distance |-> distance] ELSE st

\* One iteration of the loop over the declarations (lines 275-311).
ConsiderDecl(st, decl, functions, mapName, targetLine) ==
    IF ~NameMatches(decl.name, mapName) THEN st
    ELSE IF decl.line > targetLine THEN st
    ELSE LET declFunc == GetFunctionAtLine(functions, decl.line)
             currentFunc == GetFunctionAtLine(functions, targetLine)
             distance == Distance(targetLine, decl.line)
         IN  IF currentFunc # NoFunc
             THEN IF SameFunction(declFunc, currentFunc)
                  THEN TakeIfCloser(st, decl, distance)
                  ELSE IF IsGlobalFallback(declFunc, decl.scope)
                  THEN IF st.decl = NoDecl \/ ToLowerCase(st.decl.scope) # "local"
                       THEN TakeIfCloser(st, decl, distance)
                       ELSE st
                  ELSE st
             ELSE IF declFunc = NoFunc
                  THEN TakeIfCloser(st, decl, distance)
                  ELSE st

RECURSIVE ClosestDeclFrom(_, _, _, _, _, _)
ClosestDeclFrom(declarations, i, st, functions, mapName, targetLine) ==
    IF i > Len(declarations) THEN st
    ELSE ClosestDeclFrom(declarations, i + 1,
             ConsiderDecl(st, declarations[i], functions, mapName, targetLine),
             functions, mapName, targetLine)

\* closestDecl after the loop (lines 272-311); NoDecl when no declaration is in scope.
ClosestDecl(lines, mapName, targetLine) ==
    ClosestDeclFrom(ParseMapDeclarations(lines), 1,
                    [decl |-> NoDecl, distance |-> Infinity],
                    ParseFunctionBoundaries(lines), mapName, targetLine).decl

\* An assignment on the query line itself counts as before it.
IsBeforeTargetInclusive(assignLine, targetLine) == assignLine <= targetLine

\* The negation of `assignment.line >= targetLine` (line 322).
IsBeforeTarget(assignLine, targetLine) == assignLine < targetLine

\* An assignment filter that ignores where the assignment is.
AssignmentInScopeAnywhere(currentFunc, assignFunc, closestDecl) == TRUE

\* The scope test on one assignment (lines 327-337).
AssignmentInScope(currentFunc, assignFunc, closestDecl) ==
    IF currentFunc # NoFunc
    THEN \/ SameFunction(assignFunc, currentFunc)
         \/ (assignFunc = NoFunc /\ ToLowerCase(closestDecl.scope) = "global")
    ELSE assignFunc = NoFunc

\* Array.from(new Set(seq)): the distinct elements in order of first occurrence.
RECURSIVE Distinct(_)
Distinct(seq) ==
    IF seq = <<>> THEN <<>>
    ELSE LET init == Distinct(SubSeq(seq, 1, Len(seq) - 1))
             last == seq[Len(seq)]
         IN  IF \E k \in 1..Len(init) : init[k] = last THEN init ELSE Append(init, last)

\* The keys of the assignments that pass the filters (lines 321-338), in line order.
RECURSIVE ValidKeysFrom(_, _, _, _, _)
ValidKeysFrom(assignments, i, functions, targetLine, closestDecl) ==
    IF i > Len(assignments) THEN <<>>
    ELSE LET a == assignments[i]
             keep == /\ IsBeforeTarget(a.line, targetLine)
                     /\ AssignmentInScope(GetFunctionAtLine(functions, targetLine),
                                          GetFunctionAtLine(functions, a.line), closestDecl)
         IN  (IF keep THEN <<a.key>> ELSE <<>>)
             \o ValidKeysFrom(assignments, i + 1, functions, targetLine, closestDecl)

\* getFunctionParameterKeys(functionName, parameterName)
GetFunctionParameterKeys(lines, functionName, parameterName) ==
    LET functions == ParseFunctionBoundaries(lines)
        Named(f) == f.name = functionName
        k == FirstIndex(functions, Named)
    IN  IF k = 0 \/ ~(\E j \in 1..Len(functions[k].parameters) :
                          functions[k].parameters[j] = parameterName)
        THEN <<>>
        ELSE LET func == functions[k]
                 InFunc(a) == a.line >= func.startLine /\ a.line <= func.endLine
             IN  [j \in 1..Len(SelectSeq(ParseKeyAssignments(lines, parameterName), InFunc)) |->
                    LET a == SelectSeq(ParseKeyAssignments(lines, parameterName), InFunc)[j]
                    IN  [key |-> a.key, line |-> a.line, addedInFunction |-> TRUE]]

\* Array.prototype.indexOf (1-based here; 0 when absent): exact string comparison.
IndexOf(seq, x) ==
    LET Is(y) == y = x IN FirstIndex(seq, Is)

\* The keys one call line contributes (lines 392-407), before deduplication.
CallLineKeys(lines, index, mapName) ==
    LET line == lines[index + 1]
        functions == ParseFunctionBoundaries(lines)
    IN  IF line.kind # "call" THEN <<>>
        ELSE LET argIndex == IndexOf(line.args, mapName)
                 Named(f) == f.name = line.fname
                 k == FirstIndex(functions, Named)
             IN  IF argIndex = 0 THEN <<>>
                 ELSE IF k = 0 \/ argIndex > Len(functions[k].parameters) THEN <<>>
                 ELSE LET paramKeys == GetFunctionParameterKeys(lines, line.fname,
                                           functions[k].parameters[argIndex])
                      IN  [j \in 1..Len(paramKeys) |-> paramKeys[j].key]

RECURSIVE CallKeysFrom(_, _, _, _)
CallKeysFrom(lines, i, mapName, targetLine) ==
    IF i > Len(lines) THEN <<>>
    ELSE (IF i - 1 >= targetLine THEN <<>> ELSE CallLineKeys(lines, i - 1, mapName))
         \o CallKeysFrom(lines, i + 1, mapName, targetLine)

\* getKeysFromFunctionCalls(mapName, targetLine)
GetKeysFromFunctionCalls(lines, mapName, targetLine) ==
    LET keys == Distinct(CallKeysFrom(lines, 1, mapName, targetLine))
    IN  [j \in 1..Len(keys) |-> [key |-> keys[j], addedInFunction |-> TRUE]]

EmptyKeys == [directKeys |-> <<>>, functionKeys |-> <<>>]

\* A lookup that collects keys even when no declaration is in scope.
GetKeysWithoutDeclaration(lines, mapName, targetLine, includeFunctionKeys) ==
    [directKeys |->
         Distinct(ValidKeysFrom(ParseKeyAssignments(lines, mapName), 1,
                                ParseFunctionBoundaries(lines), targetLine,
                                [name |-> mapName, scope |-> "Global", line |-> 0])),
     functionKeys |->
         IF includeFunctionKeys
         THEN GetKeysFromFunctionCalls(lines, mapName, targetLine)
         ELSE <<>>]

\* getKeysForMapAtLine(mapName, targetLine, includeFunctionKeys)
GetKeysForMapAtLine(lines, mapName, targetLine, includeFunctionKeys) ==
    LET closestDecl == ClosestDecl(lines, mapName, targetLine)
    IN  IF closestDecl = NoDecl THEN EmptyKeys
        ELSE [directKeys |->
                  Distinct(ValidKeysFrom(ParseKeyAssignments(lines, mapName), 1,
                                         ParseFunctionBoundaries(lines), targetLine,
                                         closestDecl)),
              functionKeys |->
                  IF includeFunctionKeys
                  THEN GetKeysFromFunctionCalls(lines, mapName, targetLine)
                  ELSE <<>>]

\* ------------------------------------------------------------------ debounce

\* clearTimeout(id): the host drops the timer with that id, if it is still pending.
ClearTimeout(ts, id) == {t \in ts : t.id # id}

\* A debounced function that arms a new timer without clearing the one it remembers.
DebouncedCallKeepsOld(ts, remembered, id, path, source) ==
    ts \cup {[id |-> id, path |-> path, source |-> source]}

\* The body of the debounced function (debounce, lines 13-20): clear the timer the
\* closure remembers, arm a new one carrying this call's arguments.
DebouncedCall(ts, remembered, id, path, source) ==
    ClearTimeout(ts, remembered) \cup {[id |-> id, path |-> path, source |-> source]}

\* A cancel that leaves the remembered timer pending.
DebounceCancelNothing(ts, remembered) == ts

\* debouncedFunction.cancel (lines 23-25).
DebounceCancel(ts, remembered) == ClearTimeout(ts, remembered)

\* ------------------------------------------------------------------ _parseFile

\* _parseFile(filePath, source): the cache after the call.
ParseFileParsers(fp, ongoing, path, source) ==
    IF path \in ongoing THEN fp ELSE [fp EXCEPT ![path] = MapParser(source)]

\* _parseFile: pendingParses after the call (the finally block).
ParseFilePending(pp, ongoing, path) ==
    IF path \in ongoing THEN pp ELSE [pp EXCEPT ![path] = NoSource]

\* ------------------------------------------------------------------ history

Event(op, source, installed) == [op |-> op, source |-> source, installed |-> installed]

Record(path, op, source, installed) ==
    history' = [history EXCEPT ![path] = Append(@, Event(op, source, installed))]

\* Update calls so far, over all paths.
\* The calls that concern the whole cache are recorded on every path.
GlobalOps == {"updateConfiguration", "clear"}

RECURSIVE CallsIn(_)
CallsIn(h) ==
    IF h = <<>> THEN 0
    ELSE (IF Head(h).op \in {"fire"} \cup GlobalOps THEN 0 ELSE 1) + CallsIn(Tail(h))

RECURSIVE GlobalCallsIn(_)
GlobalCallsIn(h) ==
    IF h = <<>> THEN 0
    ELSE (IF Head(h).op \in GlobalOps THEN 1 ELSE 0) + GlobalCallsIn(Tail(h))

RECURSIVE SumCalls(_)
SumCalls(ps) ==
    IF ps = {} THEN 0
    ELSE LET p == CHOOSE q \in ps : TRUE IN CallsIn(history[p]) + SumCalls(ps \ {p})

CanCall == SumCalls(Paths) + GlobalCallsIn(history["main.au3"]) < MaxCalls

\* ------------------------------------------------------------------ inputs of a MapParser

FuncNames == {"F", "G"}

\* A Func line of the text is still open at its end.
RECURSIVE FunctionOpen(_)
FunctionOpen(src) ==
    IF src = <<>> THEN FALSE
    ELSE LET last == src[Len(src)] IN
         IF last.kind = "func" THEN TRUE
         ELSE IF last.kind = "endfunc" THEN FALSE
         ELSE FunctionOpen(SubSeq(src, 1, Len(src) - 1))

\* Texts about scopes: declarations with each keyword and assignments, at top level and
\* inside functions F and G (either name may be defined more than once).
\* Lines such a text may have outside every function:
ScopeTopLines ==
    {DeclLine("Local", "$m"), DeclLine("Global", "$m"),
     DotLine("$M", "name"), BracketLine("$m", <<"age">>)}
    \cup {FuncLine(f, <<>>) : f \in FuncNames}
\* and after a Func line that no EndFunc has closed yet:
ScopeBodyLines ==
    {DeclLine("Local", "$m"), DeclLine("Dim", "$m"), DeclLine("Static", "$m"),
     DeclLine("Global", "$m"), BracketLine("$m", <<"age">>), EndFuncLine}

ScopeLines(src) == IF FunctionOpen(src) THEN ScopeBodyLines ELSE ScopeTopLines

\* Texts about calls: a function F that assigns a key to its parameter, and calls that
\* pass the map to it.
CallTopLines ==
    {DeclLine("Global", "$m"), DotLine("$m", "name"), FuncLine("F", <<"$p">>),
     CallLine("F", <<"$m">>)}
CallBodyLines == {DeclLine("Local", "$m"), DotLine("$p", "zip"), EndFuncLine}

CallLines(src) == IF FunctionOpen(src) THEN CallBodyLines ELSE CallTopLines

\* The lines a query may be made at.
QueryLines == 0..MaxLines \cup {Infinity}

NoQuery == [none |-> "query"]

NoParserUnderTest ==
    /\ parser = NoParser
    /\ lastQuery = NoQuery

NoCall == [pc |-> "idle"]
NoDisk == [p \in Paths |-> [status |-> "missing", text |-> <<>>, includes |-> <<>>]]

\* No include-aware query is made and no file is read.
NoIncludeQuery ==
    /\ disk = NoDisk
    /\ call = NoCall

NoResolver == [pc |-> "none"]

NoSymbols == [none |-> "symbols"]

NoCompletion == [none |-> "completion"]

NoDocument == [none |-> "document"]

NoExtension == [none |-> "extension"]

NoProviders == completion = NoCompletion /\ document = NoDocument /\ extension = NoExtension

\* Nothing but the service and the parsers is exercised.
NothingElse == resolver = NoResolver /\ symbols = NoSymbols /\ NoProviders

\* ------------------------------------------------------------------ actions

InitService ==
    /\ fileParsers = [p \in Paths |-> NoParser]
    /\ debouncedParseByFile = {}
    /\ timeout = [p \in Paths |-> NoTimer]
    /\ timers = {}
    /\ nextTimerId = 1
    /\ pendingParses = [p \in Paths |-> NoSource]
    /\ ongoingParses = {}
    /\ history = [p \in Paths |-> <<>>]

\* updateFile(filePath, source)
UpdateFile(path, source) ==
    /\ CanCall
    /\ fileParsers' = [fileParsers EXCEPT ![path] = MapParser(source)]
    /\ Record(path, "updateFile", source, source)
    /\ UNCHANGED <<debouncedParseByFile, timeout, timers, nextTimerId, pendingParses,
                   ongoingParses, parserVars, otherVars, includeVars>>

\* updateFileDebounced(filePath, source)
UpdateFileDebounced(path, source) ==
    /\ CanCall
    /\ debouncedParseByFile' = debouncedParseByFile \cup {path}
    /\ pendingParses' = [pendingParses EXCEPT ![path] = source]
    /\ timers' = DebouncedCall(timers, timeout[path], nextTimerId, path, source)
    /\ timeout' = [timeout EXCEPT ![path] = nextTimerId]
    /\ nextTimerId' = nextTimerId + 1
    /\ Record(path, "debounced", source, NoSource)
    /\ UNCHANGED <<fileParsers, ongoingParses, parserVars, otherVars, includeVars>>

\* updateFileImmediate(filePath, source)
UpdateFileImmediate(path, source) ==
    /\ CanCall
    /\ timers' = IF path \in debouncedParseByFile
                 THEN DebounceCancel(timers, timeout[path])
                 ELSE timers
    /\ fileParsers' = ParseFileParsers(fileParsers, ongoingParses, path, source)
    /\ pendingParses' = ParseFilePending(pendingParses, ongoingParses, path)
    /\ Record(path, "immediate", source, IF path \in ongoingParses THEN NoSource ELSE source)
    /\ UNCHANGED <<debouncedParseByFile, timeout, nextTimerId, ongoingParses, parserVars, otherVars, includeVars>>

\* A pending timer fires: `later` (debounce, lines 14-17) clears the remembered timer
\* and runs _parseFile with the arguments of the call that armed this timer.
TimerFire(t) ==
    /\ t \in timers
    /\ timers' = ClearTimeout(timers \ {t}, timeout[t.path])
    /\ fileParsers' = ParseFileParsers(fileParsers, ongoingParses, t.path, t.source)
    /\ pendingParses' = ParseFilePending(pendingParses, ongoingParses, t.path)
    /\ Record(t.path, "fire", t.source, IF t.path \in ongoingParses THEN NoSource ELSE t.source)
    /\ UNCHANGED <<debouncedParseByFile, timeout, nextTimerId, ongoingParses, parserVars, otherVars, includeVars>>

NextUpdates ==
    \/ \E p \in EditedPaths, s \in Texts : UpdateFile(p, s)
    \/ \E p \in EditedPaths, s \in Texts : UpdateFileDebounced(p, s)
    \/ \E p \in EditedPaths, s \in Texts : UpdateFileImmediate(p, s)
    \/ \E t \in timers : TimerFire(t)

\* A fresh service; no MapParser is handled outside it.
InitUpdates == InitService /\ NoParserUnderTest /\ NoIncludeQuery /\ NothingElse

\* The update calls of the service and the firing of its debounce timers.
SpecUpdates == InitUpdates /\ [][NextUpdates]_vars

\* ------------------------------------------------------------------ a MapParser on its own

\* getKeysForMapAtLine(mapName, targetLine, includeFunctionKeys) on the instance.  The
\* call fills this.functions (lines 264-266) and changes nothing else, so a run makes
\* one call.
QueryKeys(mapName, targetLine, includeFunctionKeys) ==
    /\ parser # NoParser
    /\ lastQuery = NoQuery
    /\ parser' = EnsureFunctions(parser)
    /\ lastQuery' = [mapName |-> mapName, targetLine |-> targetLine,
                     includeFunctionKeys |-> includeFunctionKeys,
                     result |-> GetKeysForMapAtLine(parser.lines, mapName, targetLine,
                                                    includeFunctionKeys)]
    /\ UNCHANGED <<serviceVars, includeVars, otherVars>>

\* The text grows by one line and the instance is constructed anew from it, as every
\* update of a file does (updateFile, _parseFile).
Reparse(line) ==
    /\ lastQuery = NoQuery
    /\ Len(parser.lines) < MaxLines
    /\ parser' = MapParser(Append(parser.lines, line))
    /\ UNCHANGED <<lastQuery, serviceVars, includeVars, otherVars>>

InitParser ==
    /\ InitService
    /\ NoIncludeQuery
    /\ NothingElse
    /\ parser = MapParser(<<>>)
    /\ lastQuery = NoQuery

\* Queries are made with the default includeFunctionKeys = true, as the service makes them.
NextParser ==
    \/ \E line \in ScopeLines(parser.lines) : Reparse(line)
    \/ \E l \in QueryLines : QueryKeys("$m", l, TRUE)

\* One MapParser over the texts about scopes, answering key queries.
SpecParser == InitParser /\ [][NextParser]_vars

NextCalls ==
    \/ \E line \in CallLines(parser.lines) : Reparse(line)
    \/ \E n \in {"$m", "$p"}, l \in QueryLines, f \in BOOLEAN : QueryKeys(n, l, f)

\* One MapParser over the texts about calls, answering key queries.
SpecCalls == InitParser /\ [][NextCalls]_vars

\* ------------------------------------------------------------------ function boundaries of one MapParser

\* The lines of the texts about function boundaries, in any order: a Func line may
\* follow a Func line and an EndFunc line may stand where no function is open.
BoundaryLines == {FuncLine("F", <<>>), FuncLine("G", <<"$p">>), EndFuncLine, OtherLine}

\* parseFunctionBoundaries() on the instance: this.functions is emptied and filled.
ParseFunctions ==
    /\ parser # NoParser
    /\ lastQuery = NoQuery
    /\ parser' = [parser EXCEPT !.functions = ParseFunctionBoundaries(parser.lines)]
    /\ lastQuery' = [parsed |-> "functions"]
    /\ UNCHANGED <<serviceVars, includeVars, otherVars>>

NextFunctions ==
    \/ \E line \in BoundaryLines : Reparse(line)
    \/ ParseFunctions

\* One MapParser over the texts about function boundaries, parsing them.
SpecFunctions == InitParser /\ [][NextFunctions]_vars

\* ------------------------------------------------------------------ nested structures

\* A structure tree ({children: {...}}) as the function from key paths to nodes; the
\* children of a node are the paths one key longer.
EmptyStructure == [q \in {} |-> {}]

\* The outcome of a call that throws a TypeError instead of returning a tree.  No tree
\* has a node at the empty path.
Thrown == [q \in {<<>>} |-> "TypeError"]

\* Every `children` object is an object literal, so that children[key] yields, for these
\* keys, what Object.prototype holds under that name: a value that is truthy and is no
\* node (it has no `children`).
InheritedNames == {"constructor", "__proto__", "toString", "valueOf", "hasOwnProperty"}

\* current[key] is truthy: the children object has the key itself or inherits it.
HasKey(tree, path) == path \in DOMAIN tree \/ path[Len(path)] \in InheritedNames

\* if (!current[key]) current[key] = {...}: the first assignment of a path makes its node.
AddNode(tree, path, node) == IF HasKey(tree, path) THEN tree ELSE tree @@ (path :> node)

\* The variable `current` of the nested branch: the children object of the node at
\* `path`, or undefined.
Children(path) == [defined |-> TRUE, path |-> path]
Undefined == [defined |-> FALSE, path |-> <<>>]

\* buildNestedMapStructure, nested branch (lines 169-182): one node per prefix of the
\* chain; `current` moves to current[key].children, which is undefined when current[key]
\* is an inherited value, and the next key looked up in undefined throws.
RECURSIVE AddChain(_, _, _, _)
AddChain(tree, assignment, k, current) ==
    IF k > Len(assignment.nested) THEN tree
    ELSE IF ~current.defined THEN Thrown
    ELSE LET path == Append(current.path, assignment.nested[k])
             added == AddNode(tree, path,
                              [key |-> assignment.nested[k], line |-> assignment.line,
                               notation |-> assignment.notation,
                               isLeaf |-> k = Len(assignment.nested), isDynamic |-> FALSE])
         IN  AddChain(added, assignment, k + 1,
                      IF path \in DOMAIN added THEN Children(path) ELSE Undefined)

\* buildNestedMapStructure: the callback of assignments.forEach (lines 166-197).
AddAssignment(tree, assignment) ==
    IF Len(assignment.nested) > 0
    THEN AddChain(tree, assignment, 1, Children(<<>>))
    ELSE AddNode(tree, <<assignment.key>>,
                 [key |-> assignment.key, line |-> assignment.line,
                  notation |-> assignment.notation, isLeaf |-> TRUE,
                  isDynamic |-> assignment.isDynamic])

\* assignments.forEach: an exception thrown by the callback ends the loop and the call.
RECURSIVE BuildFrom(_, _, _)
BuildFrom(assignments, i, tree) ==
    IF i > Len(assignments) \/ tree = Thrown THEN tree
    ELSE BuildFrom(assignments, i + 1, AddAssignment(tree, assignments[i]))

\* buildNestedMapStructure(mapName)
BuildNestedMapStructure(lines, mapName) ==
    BuildFrom(ParseKeyAssignments(lines, mapName), 1, EmptyStructure)

\* The paths of the children of the node at `prefix`.
ChildPaths(tree, prefix) ==
    {q \in DOMAIN tree : Len(q) = Len(prefix) + 1 /\ SubSeq(q, 1, Len(prefix)) = prefix}

\* The node at `path` with everything below it.
Subtree(tree, path) ==
    LET under == {q \in DOMAIN tree : Len(q) >= Len(path) /\ SubSeq(q, 1, Len(path)) = path}
    IN  [q \in under |-> tree[q]]

\* _mergeMapStructures(target, source), over the children still to visit: a key the
\* target lacks takes the source's subtree, a key it has is descended into.
RECURSIVE MergeChildren(_, _, _)
MergeChildren(target, source, todo) ==
    IF todo = {} THEN target
    ELSE LET q == CHOOSE x \in todo : TRUE
             merged == IF q \notin DOMAIN target
                       THEN target @@ Subtree(source, q)
                       ELSE MergeChildren(target, source, ChildPaths(source, q))
         IN  MergeChildren(merged, source, todo \ {q})

\* A merge in which the node of the source replaces the node the target has.
MergeSourceWins(target, source) == source @@ target

\* _mergeMapStructures(target, source)
MergeMapStructures(target, source) ==
    MergeChildren(target, source, ChildPaths(source, <<>>))

\* ------------------------------------------------------------------ structures of one MapParser

\* The most assignment lines of a text whose structure is built.
MaxAssignments == 4

\* The lines of the texts about structures: flat and chained assignments to $m in both
\* notations, with an ordinary key and with a key every object inherits.
StructureLines ==
    {DotLine("$m", "a"), DotLine("$m", "constructor"),
     BracketLine("$m", <<"a">>), BracketLine("$m", <<"a", "b">>),
     BracketLine("$m", <<"a", "b", "c">>),
     BracketLine("$m", <<"a", "constructor">>), BracketLine("$m", <<"constructor", "a">>),
     DynamicLine("$m", "$k")}

\* The text grows by one assignment and the instance is constructed anew from it.
ReparseAssignment(line) ==
    /\ lastQuery = NoQuery
    /\ Len(parser.lines) < MaxAssignments
    /\ parser' = MapParser(Append(parser.lines, line))
    /\ UNCHANGED <<lastQuery, serviceVars, includeVars, otherVars>>

\* buildNestedMapStructure(mapName) on the instance, with the tree it returns or the
\* exception it throws.
BuildStructure(mapName) ==
    /\ parser # NoParser
    /\ lastQuery = NoQuery
    /\ lastQuery' = [built |-> mapName,
                     result |-> BuildNestedMapStructure(parser.lines, mapName)]
    /\ UNCHANGED <<parser, serviceVars, includeVars, otherVars>>

NextStructure ==
    \/ \E line \in StructureLines : ReparseAssignment(line)
    \/ BuildStructure("$m")

\* One MapParser over the texts about structures, building the structure of $m.
SpecStructure == InitParser /\ [][NextStructure]_vars

\* ------------------------------------------------------------------ IncludeResolver

\* The default maxIncludeDepth of the service's constructor.
maxIncludeDepth == 3

\* The #include directives read from a file on disk, in order; a file that cannot be
\* read has none.
ParseIncludes(d, path) == IF d[path].status = "ok" THEN d[path].includes ELSE <<>>

\* resolveAllIncludes: depth-first in directive order; a directive whose target does
\* not exist or was visited already is dropped; a file `depth` hops from the entry is
\* taken when depth <= maxIncludeDepth and expanded when depth < maxIncludeDepth.
RECURSIVE ExpandIncludes(_, _, _, _, _)
ExpandIncludes(d, directives, i, depth, st) ==
    IF i > Len(directives) THEN st
    ELSE LET target == directives[i] IN
         IF d[target].status = "missing" \/ target \in st.visited
         THEN ExpandIncludes(d, directives, i + 1, depth, st)
         ELSE LET taken == [visited |-> st.visited \cup {target},
                            resolved |-> Append(st.resolved, target)]
                  below == IF depth < maxIncludeDepth
                           THEN ExpandIncludes(d, ParseIncludes(d, target), 1, depth + 1, taken)
                           ELSE taken
              IN  ExpandIncludes(d, directives, i + 1, depth, below)

\* resolveAllIncludes(entryPath): the entry file itself is never part of the result.
ResolveAllIncludes(d, entryPath) ==
    ExpandIncludes(d, ParseIncludes(d, entryPath), 1, 1,
                   [visited |-> {entryPath}, resolved |-> <<>>]).resolved

\* ------------------------------------------------------------------ include-aware queries

\* getKeysForMap(filePath, mapName, line): what it returns ...
GetKeysForMap(fp, filePath, mapName, line) ==
    IF fp[filePath] = NoParser THEN EmptyKeys
    ELSE GetKeysForMapAtLine(fp[filePath].lines, mapName, line, TRUE)

\* ... and the cache after it: the parser asked has its function boundaries filled in.
GetKeysForMapParsers(fp, filePath) ==
    IF fp[filePath] = NoParser THEN fp ELSE [fp EXCEPT ![filePath] = EnsureFunctions(@)]

\* getMapStructure(filePath, mapName)
GetMapStructure(fp, filePath, mapName) ==
    IF fp[filePath] = NoParser THEN EmptyStructure
    ELSE BuildNestedMapStructure(fp[filePath].lines, mapName)

\* keys.forEach(key => set.add(key)): insertion order, a key already present stays put.
RECURSIVE AddAll(_, _)
AddAll(seq, keys) ==
    IF keys = <<>> THEN seq
    ELSE AddAll(IF \E k \in 1..Len(seq) : seq[k] = Head(keys) THEN seq
                ELSE Append(seq, Head(keys)),
                Tail(keys))

\* A merge that appends the included direct keys without collapsing the repeated ones.
MergeKeysAsList(c, includedKeys) ==
    [c EXCEPT !.allDirectKeys = @ \o includedKeys.directKeys,
              !.allFunctionKeys = @ \o includedKeys.functionKeys]

\* getKeysForMapWithIncludes, "Merge keys" (lines 261-263)
MergeKeys(c, includedKeys) ==
    [c EXCEPT !.allDirectKeys = AddAll(@, includedKeys.directKeys),
              !.allFunctionKeys = @ \o includedKeys.functionKeys]

\* The included file at hand.
IncludedFile(c) == c.includedFiles[c.index]

\* The end of one turn of the loop for an included file that is cached: its result is
\* asked for (keys at line Infinity, or the structure) and merged (lines 259-263, 316-319).
MergeIncluded(fp, c) ==
    LET merged == IF c.kind = "keys"
                  THEN MergeKeys(c, GetKeysForMap(fp, IncludedFile(c), c.mapName, Infinity))
                  ELSE [c EXCEPT !.currentStructure =
                            MergeMapStructures(@, GetMapStructure(fp, IncludedFile(c), c.mapName))]
    IN  [fp |-> IF c.kind = "keys" THEN GetKeysForMapParsers(fp, IncludedFile(c)) ELSE fp,
         call |-> [merged EXCEPT !.index = @ + 1]]

\* A catch clause that leaves a Parser of the empty text behind for the file.
CatchReadErrorCachesEmpty(fp, c) ==
    [fp |-> [fp EXCEPT ![IncludedFile(c)] = MapParser(<<>>)],
     call |-> [c EXCEPT !.pc = "loop", !.index = @ + 1,
                        !.failed = @ \cup {IncludedFile(c)}]]

\* The catch clause (lines 249-256, 307-313): warn and `continue`.  `failed` remembers
\* the files skipped this way.
CatchReadError(fp, c) ==
    [fp |-> fp,
     call |-> [c EXCEPT !.pc = "loop", !.index = @ + 1,
                        !.failed = @ \cup {IncludedFile(c)}]]

\* The text and the editor's edited version of each file.
MainText ==
    <<DeclLine("Global", "$m"), DotLine("$m", "name"), CallLine("F", <<"$m">>),
      BracketLine("$m", <<"age">>), FuncLine("F", <<"$p">>), DotLine("$p", "zip"),
      EndFuncLine>>
MainEdited == <<DeclLine("Local", "$m"), DotLine("$m", "city")>>
LibText ==
    <<DeclLine("Global", "$m"), DotLine("$m", "age"), BracketLine("$m", <<"addr", "zip">>),
      FuncLine("F", <<"$p">>), DotLine("$p", "zip"), EndFuncLine, CallLine("F", <<"$m">>)>>
LibEdited ==
    <<DeclLine("Global", "$m"), DotLine("$m", "city"), BracketLine("$m", <<"addr", "city">>)>>
UtilText ==
    <<DeclLine("Global", "$M"), DotLine("$m", "city"), FuncLine("G", <<>>),
      DeclLine("Local", "$m"), DotLine("$m", "zip"), EndFuncLine,
      BracketLine("$m", <<"name">>)>>
UtilEdited == <<DotLine("$m", "zip"), BracketLine("$m", <<"addr", "name">>)>>

DiskText(p) ==
    CASE p = "main.au3" -> MainText [] p = "lib.au3" -> LibText [] OTHER -> UtilText
EditedText(p) ==
    CASE p = "main.au3" -> MainEdited [] p = "lib.au3" -> LibEdited [] OTHER -> UtilEdited

\* The #include directives of the files: side by side, chained, circular, and one file
\* reached twice.
IncludeGraphs ==
    {[p \in Paths |-> CASE p = "main.au3" -> <<"lib.au3", "util.au3">> [] OTHER -> <<>>],
     [p \in Paths |-> CASE p = "main.au3" -> <<"lib.au3">>
                        [] p = "lib.au3" -> <<"util.au3">> [] OTHER -> <<>>],
     [p \in Paths |-> CASE p = "main.au3" -> <<"util.au3">>
                        [] p = "util.au3" -> <<"main.au3", "lib.au3">> [] OTHER -> <<>>],
     [p \in Paths |-> CASE p = "main.au3" -> <<"util.au3", "lib.au3">>
                        [] p = "util.au3" -> <<"lib.au3">> [] OTHER -> <<>>]}

\* main.au3 can be read; an include may be readable, exist without being readable, or
\* be missing.
DiskStatuses ==
    {st \in [Paths -> {"ok", "unreadable", "missing"}] : st["main.au3"] = "ok"}

\* The lines an include-aware query is made at in the including file.
IncludeQueryLines == {1, 3, Infinity}

Idle == call.pc = "idle"

\* A file is opened: its first updateFile, with the text on disk or an edited one.
OpenFile(path) ==
    /\ Idle
    /\ fileParsers[path] = NoParser
    /\ \E source \in {DiskText(path), EditedText(path)} : UpdateFile(path, source)

\* getKeysForMapWithIncludes(filePath, mapName, line), up to its loop (lines 232-239).
\* While a call stands in its loop (pc = "loop") it runs without interruption: nothing
\* but NextIncludedFile can take a step until the call awaits the file system or is over.
GetKeysForMapWithIncludes(filePath, mapName, line) ==
    /\ Idle
    /\ LET currentKeys == GetKeysForMap(fileParsers, filePath, mapName, line) IN
        call' = [pc |-> "loop", kind |-> "keys", filePath |-> filePath,
                 mapName |-> mapName, line |-> line,
                 includedFiles |-> ResolveAllIncludes(disk, filePath), index |-> 1,
                 allDirectKeys |-> AddAll(<<>>, currentKeys.directKeys),
                 allFunctionKeys |-> currentKeys.functionKeys,
                 currentStructure |-> EmptyStructure, failed |-> {}]
    /\ fileParsers' = GetKeysForMapParsers(fileParsers, filePath)
    /\ UNCHANGED <<debouncedParseByFile, timeout, timers, nextTimerId, pendingParses,
                   ongoingParses, history, parserVars, otherVars, disk>>

\* getMapStructureWithIncludes(filePath, mapName), up to its loop (lines 293-298).
GetMapStructureWithIncludes(filePath, mapName) ==
    /\ Idle
    /\ call' = [pc |-> "loop", kind |-> "structure", filePath |-> filePath,
                mapName |-> mapName, line |-> 0,
                includedFiles |-> ResolveAllIncludes(disk, filePath), index |-> 1,
                allDirectKeys |-> <<>>, allFunctionKeys |-> <<>>,
                currentStructure |-> GetMapStructure(fileParsers, filePath, mapName),
                failed |-> {}]
    /\ UNCHANGED <<serviceVars, parserVars, otherVars, disk>>

\* The head of the for loop over includedFiles (lines 241-243, 300-302): past the last
\* file the call returns; a cached file is merged at once; a file that is not cached
\* suspends the call at `await fs.promises.access`.
NextIncludedFile ==
    /\ call.pc = "loop"
    /\ IF call.index > Len(call.includedFiles)
       THEN /\ call' = [call EXCEPT !.pc = "done"]
            /\ UNCHANGED fileParsers
       ELSE IF fileParsers[IncludedFile(call)] = NoParser
       THEN /\ call' = [call EXCEPT !.pc = "access"]
            /\ UNCHANGED fileParsers
       ELSE LET turn == MergeIncluded(fileParsers, call) IN
            /\ call' = turn.call
            /\ fileParsers' = turn.fp
    /\ UNCHANGED <<debouncedParseByFile, timeout, timers, nextTimerId, pendingParses,
                   ongoingParses, history, parserVars, otherVars, disk>>

\* await fs.promises.access(includedFile, F_OK) resolves: the file exists.
AccessSucceeds ==
    /\ call.pc = "access"
    /\ disk[IncludedFile(call)].status # "missing"
    /\ call' = [call EXCEPT !.pc = "readFile"]
    /\ UNCHANGED <<serviceVars, parserVars, otherVars, disk>>

\* await fs.promises.access rejects: the catch clause.
AccessFails ==
    /\ call.pc = "access"
    /\ disk[IncludedFile(call)].status = "missing"
    /\ LET caught == CatchReadError(fileParsers, call) IN
        /\ fileParsers' = caught.fp
        /\ call' = caught.call
    /\ UNCHANGED <<debouncedParseByFile, timeout, timers, nextTimerId, pendingParses,
                   ongoingParses, history, parserVars, otherVars, disk>>

\* await fs.promises.readFile resolves: the file is cached with updateFile (keys) or
\* updateFileImmediate (structure) and its result is merged (lines 248-263, 306-319).
ReadFileSucceeds ==
    /\ call.pc = "readFile"
    /\ disk[IncludedFile(call)].status = "ok"
    /\ LET f == IncludedFile(call)
           source == disk[f].text
           cached == IF call.kind = "keys"
                     THEN [fileParsers EXCEPT ![f] = MapParser(source)]
                     ELSE ParseFileParsers(fileParsers, ongoingParses, f, source)
           turn == MergeIncluded(cached, call)
       IN  /\ fileParsers' = turn.fp
           /\ call' = [turn.call EXCEPT !.pc = "loop"]
           /\ timers' = IF call.kind = "structure" /\ f \in debouncedParseByFile
                        THEN DebounceCancel(timers, timeout[f])
                        ELSE timers
           /\ pendingParses' = IF call.kind = "structure"
                               THEN ParseFilePending(pendingParses, ongoingParses, f)
                               ELSE pendingParses
           /\ Record(f, IF call.kind = "keys" THEN "updateFile" ELSE "immediate",
                     source, source)
    /\ UNCHANGED <<debouncedParseByFile, timeout, nextTimerId, ongoingParses, parserVars, otherVars,
                   disk>>

\* await fs.promises.readFile rejects: the catch clause.
ReadFileFails ==
    /\ call.pc = "readFile"
    /\ disk[IncludedFile(call)].status # "ok"
    /\ LET caught == CatchReadError(fileParsers, call) IN
        /\ fileParsers' = caught.fp
        /\ call' = caught.call
    /\ UNCHANGED <<debouncedParseByFile, timeout, timers, nextTimerId, pendingParses,
                   ongoingParses, history, parserVars, otherVars, disk>>

\* The file system changes under a call that waits for it: a file is deleted.
Unlink(path) ==
    /\ call.pc \in {"access", "readFile"}
    /\ disk[path].status # "missing"
    /\ disk' = [disk EXCEPT ![path].status = "missing"]
    /\ UNCHANGED <<serviceVars, parserVars, otherVars, call>>

InitIncludes ==
    /\ InitService
    /\ NoParserUnderTest
    /\ NothingElse
    /\ call = NoCall
    /\ \E g \in IncludeGraphs, st \in DiskStatuses :
           disk = [p \in Paths |->
                      [status |-> st[p], text |-> DiskText(p), includes |-> g[p]]]

NextIncludes ==
    \/ \E p \in Paths : OpenFile(p)
    \/ \E p \in Paths, l \in IncludeQueryLines : GetKeysForMapWithIncludes(p, "$m", l)
    \/ \E p \in Paths : GetMapStructureWithIncludes(p, "$m")
    \/ NextIncludedFile
    \/ AccessSucceeds
    \/ AccessFails
    \/ ReadFileSucceeds
    \/ ReadFileFails
    \/ \E p \in Paths : Unlink(p)

\* Files are opened, then one include-aware query runs to its end over a file system
\* that may fail it.
SpecIncludes == InitIncludes /\ [][NextIncludes]_vars

\* ------------------------------------------------------------------ reconfiguration and removal

RecordAll(op) ==
    history' = [p \in Paths |-> Append(history[p], Event(op, NoSource, NoSource))]

\* An updateConfiguration that keeps the cached Parsers.
ClearedParsersKept(fp) == fp

\* this.fileParsers.clear() (lines 109, 206)
ClearedParsers(fp) == [p \in Paths |-> NoParser]

\* updateConfiguration(workspaceRoot, autoitIncludePaths, maxIncludeDepth): a new
\* IncludeResolver and an empty cache; the debounce timers and pendingParses are not
\* touched.
UpdateConfiguration ==
    /\ CanCall
    /\ fileParsers' = ClearedParsers(fileParsers)
    /\ RecordAll("updateConfiguration")
    /\ UNCHANGED <<debouncedParseByFile, timeout, timers, nextTimerId, pendingParses,
                   ongoingParses, parserVars, otherVars, includeVars>>

\* removeFile(filePath)
RemoveFile(path) ==
    /\ CanCall
    /\ fileParsers' = [fileParsers EXCEPT ![path] = NoParser]
    /\ Record(path, "removeFile", NoSource, NoSource)
    /\ UNCHANGED <<debouncedParseByFile, timeout, timers, nextTimerId, pendingParses,
                   ongoingParses, parserVars, otherVars, includeVars>>

\* clear()
Clear ==
    /\ CanCall
    /\ fileParsers' = ClearedParsers(fileParsers)
    /\ RecordAll("clear")
    /\ UNCHANGED <<debouncedParseByFile, timeout, timers, nextTimerId, pendingParses,
                   ongoingParses, parserVars, otherVars, includeVars>>

\* getKeysForMap(filePath, mapName, line) made on the service; lastQuery keeps what was
\* asked, the Parser the answer came from, how much of the path's history lay before
\* the call, and the answer.
ServiceQuery(filePath, mapName, line) ==
    /\ lastQuery' = [filePath |-> filePath, mapName |-> mapName, line |-> line,
                     from |-> fileParsers[filePath], at |-> Len(history[filePath]),
                     result |-> GetKeysForMap(fileParsers, filePath, mapName, line)]
    /\ fileParsers' = GetKeysForMapParsers(fileParsers, filePath)
    /\ UNCHANGED <<debouncedParseByFile, timeout, timers, nextTimerId, pendingParses,
                   ongoingParses, history, parser, otherVars, includeVars>>

NextReconfigure ==
    \/ NextUpdates
    \/ UpdateConfiguration
    \/ \E p \in EditedPaths : RemoveFile(p)
    \/ Clear
    \/ \E p \in EditedPaths : ServiceQuery(p, "$m", Infinity)

\* The update calls, the calls that drop cached Parsers, and the queries.
SpecReconfigure == InitUpdates /\ [][NextReconfigure]_vars

\* ------------------------------------------------------------------ concurrent include-aware queries

\* The getKeysForMapWithIncludes calls that may be in flight together.  In the
\* specification of this section `call` holds one call record per query.
Queries == {1, 2}

\* No call is between two awaits: JavaScript runs a call from one await to the next
\* without interruption, so nothing else happens while a call stands in its loop.
NoneRunning == \A q \in Queries : call[q].pc # "loop"

\* getKeysForMapWithIncludes(filePath, mapName, line) is called as query q (lines
\* 232-239).
StartQuery(q, filePath, mapName, line) ==
    /\ NoneRunning
    /\ call[q].pc = "idle"
    /\ LET currentKeys == GetKeysForMap(fileParsers, filePath, mapName, line) IN
        call' = [call EXCEPT ![q] =
                    [pc |-> "loop", kind |-> "keys", filePath |-> filePath,
                     mapName |-> mapName, line |-> line,
                     includedFiles |-> ResolveAllIncludes(disk, filePath), index |-> 1,
                     allDirectKeys |-> AddAll(<<>>, currentKeys.directKeys),
                     allFunctionKeys |-> currentKeys.functionKeys,
                     currentStructure |-> EmptyStructure, failed |-> {}]]
    /\ fileParsers' = GetKeysForMapParsers(fileParsers, filePath)
    /\ UNCHANGED <<debouncedParseByFile, timeout, timers, nextTimerId, pendingParses,
                   ongoingParses, history, parserVars, otherVars, disk>>

\* The head of the for loop of query q (lines 241-243): past the last file the call
\* returns, a cached file is merged at once, a file that is not cached suspends the call
\* at `await fs.promises.access`.
QueryLoop(q) ==
    /\ call[q].pc = "loop"
    /\ IF call[q].index > Len(call[q].includedFiles)
       THEN /\ call' = [call EXCEPT ![q].pc = "done"]
            /\ UNCHANGED fileParsers
       ELSE IF fileParsers[IncludedFile(call[q])] = NoParser
       THEN /\ call' = [call EXCEPT ![q].pc = "access"]
            /\ UNCHANGED fileParsers
       ELSE LET turn == MergeIncluded(fileParsers, call[q]) IN
            /\ call' = [call EXCEPT ![q] = turn.call]
            /\ fileParsers' = turn.fp
    /\ UNCHANGED <<debouncedParseByFile, timeout, timers, nextTimerId, pendingParses,
                   ongoingParses, history, parserVars, otherVars, disk>>

\* await fs.promises.access settles for query q: the call goes on to readFile, or its
\* catch clause skips the file.
AccessSettles(q) ==
    /\ NoneRunning
    /\ call[q].pc = "access"
    /\ IF disk[IncludedFile(call[q])].status = "missing"
       THEN LET caught == CatchReadError(fileParsers, call[q]) IN
            /\ fileParsers' = caught.fp
            /\ call' = [call EXCEPT ![q] = caught.call]
       ELSE /\ call' = [call EXCEPT ![q].pc = "readFile"]
            /\ UNCHANGED fileParsers
    /\ UNCHANGED <<debouncedParseByFile, timeout, timers, nextTimerId, pendingParses,
                   ongoingParses, history, parserVars, otherVars, disk>>

\* await fs.promises.readFile settles for query q: updateFile(includedFile, source)
\* with the text read, whatever the cache holds for the file by now, and the file's
\* keys are merged (lines 246-263); or the catch clause.
ReadFileSettles(q) ==
    /\ NoneRunning
    /\ call[q].pc = "readFile"
    /\ LET f == IncludedFile(call[q]) IN
       IF disk[f].status = "ok"
       THEN LET turn == MergeIncluded([fileParsers EXCEPT ![f] = MapParser(disk[f].text)],
                                      call[q])
            IN  /\ fileParsers' = turn.fp
                /\ call' = [call EXCEPT ![q] = [turn.call EXCEPT !.pc = "loop"]]
                /\ Record(f, "updateFile", disk[f].text, disk[f].text)
       ELSE LET caught == CatchReadError(fileParsers, call[q]) IN
            /\ fileParsers' = caught.fp
            /\ call' = [call EXCEPT ![q] = caught.call]
            /\ UNCHANGED history
    /\ UNCHANGED <<debouncedParseByFile, timeout, timers, nextTimerId, pendingParses,
                   ongoingParses, parserVars, otherVars, disk>>

\* The editor hands a text of the file to the service, at any moment between the steps
\* of the queries.
EditorUpdate(path) ==
    /\ NoneRunning
    /\ \E source \in {DiskText(path), EditedText(path)} : UpdateFile(path, source)

\* main.au3 is open in the editor.  The files are on disk as main.au3 -> lib.au3 -> util.au3 or main.au3 -> lib.au3,
\* util.au3; util.au3 may be unreadable.
InitConcurrent ==
    /\ InitService
    /\ NoParserUnderTest
    /\ NothingElse
    /\ call = [q \in Queries |-> NoCall]
    /\ \E g \in IncludeGraphs, st \in DiskStatuses :
           /\ g["main.au3"][1] = "lib.au3"
           /\ st["lib.au3"] = "ok"
           /\ st["util.au3"] # "missing"
           /\ disk = [p \in Paths |->
                         [status |-> st[p], text |-> DiskText(p), includes |-> g[p]]]

NextConcurrent ==
    \/ \E q \in Queries : StartQuery(q, "main.au3", "$m", Infinity)
    \/ \E q \in Queries : QueryLoop(q)
    \/ \E q \in Queries : AccessSettles(q)
    \/ \E q \in Queries : ReadFileSettles(q)
    \/ \E p \in Paths \ {"main.au3"} : EditorUpdate(p)

\* Two include-aware queries whose file reads settle in any order, and the editor's
\* updates in between.
SpecConcurrent == InitConcurrent /\ [][NextConcurrent]_vars

\* ------------------------------------------------------------------ an IncludeResolver on its own

\* The most #include directives the files under test hold together.
MaxDirectives == 3

ResolverFiles == {"level1.au3", "level2.au3", "level3.au3", "level4.au3"}

\* The file resolveAllIncludes is called on.
EntryFile == "level1.au3"

\* The file that may be absent from the disk.
OptionalFile == "level4.au3"

\* The maxIncludeDepth values an IncludeResolver is constructed with.
MaxDepths == 1 .. maxIncludeDepth

\* Files that exist and hold no directive yet; OptionalFile exists or not.
EmptyFiles(optionalStatus) ==
    [f \in ResolverFiles |->
        [status |-> IF f = OptionalFile THEN optionalStatus ELSE "ok", includes |-> <<>>]]

RECURSIVE CountDirectives(_, _)
CountDirectives(fs, files) ==
    IF files = {} THEN 0
    ELSE LET f == CHOOSE x \in files : TRUE
         IN  Len(fs[f].includes) + CountDirectives(fs, files \ {f})

\* A diamond: level3 is included by the entry file itself and, before that directive, by
\* level2; level4 is included by level3.
DiamondFiles ==
    [f \in ResolverFiles |->
        [status |-> "ok",
         includes |-> CASE f = "level1.au3" -> <<"level2.au3", "level3.au3">>
                        [] f = "level2.au3" -> <<"level3.au3">>
                        [] f = "level3.au3" -> <<"level4.au3">>
                        [] OTHER -> <<>>]]

\* new IncludeResolver(workspaceRoot, autoitIncludePaths, maxIncludeDepth)
IncludeResolver(maxDepth, optionalStatus) ==
    [pc |-> "idle", maxDepth |-> maxDepth, fs |-> EmptyFiles(optionalStatus)]

\* A traversal that starts with nothing visited.
InitialVisitedEmpty(entryPath) == {}

\* The visited set resolveAllIncludes starts with.
InitialVisited(entryPath) == {entryPath}

\* No cut: every directive whose target exists is followed.
NeverVisited(target, visited) == FALSE

\* The traversal is cut at a file whose resolved path was visited already.
AlreadyVisited(target, visited) == target \in visited

\* A file at the limit is expanded as well.
CanExpandAtLimit(depth, maxDepth) == depth <= maxDepth

\* The includes of a file `depth` hops from the entry are expanded below the limit only.
CanExpand(depth, maxDepth) == depth < maxDepth

\* One more directive `#include "to"` at the end of file `from`.
AddInclude(from, to) ==
    /\ resolver.pc = "idle"
    /\ CountDirectives(resolver.fs, ResolverFiles) < MaxDirectives
    /\ resolver' = [resolver EXCEPT !.fs[from].includes = Append(@, to)]
    /\ UNCHANGED <<serviceVars, parserVars, includeVars, symbolVars, providerVars>>

\* resolveAllIncludes(entryPath): the call starts on the entry file's directives.
StartResolve(entryPath) ==
    /\ resolver.pc = "idle"
    /\ resolver' = [pc |-> "running", maxDepth |-> resolver.maxDepth, fs |-> resolver.fs,
                    entry |-> entryPath,
                    stack |-> <<[file |-> entryPath, index |-> 1, depth |-> 1]>>,
                    visited |-> InitialVisited(entryPath),
                    resolved |-> <<>>,
                    expanded |-> <<entryPath>>]
    /\ UNCHANGED <<serviceVars, parserVars, includeVars, symbolVars, providerVars>>

\* One step of the traversal: the next directive of the file on top of the stack, or
\* the return from that file when it has none left.
ResolveStep ==
    /\ resolver.pc = "running"
    /\ LET n == Len(resolver.stack)
           top == resolver.stack[n]
           directives == ParseIncludes(resolver.fs, top.file)
           rest == SubSeq(resolver.stack, 1, n - 1)
       IN  IF top.index > Len(directives)
           THEN resolver' = [resolver EXCEPT !.stack = rest,
                                             !.pc = IF n = 1 THEN "done" ELSE "running"]
           ELSE LET target == directives[top.index]
                    advanced == Append(rest, [top EXCEPT !.index = @ + 1])
                IN  IF resolver.fs[target].status = "missing"
                       \/ AlreadyVisited(target, resolver.visited)
                    THEN resolver' = [resolver EXCEPT !.stack = advanced]
                    ELSE IF CanExpand(top.depth, resolver.maxDepth)
                    THEN resolver' = [resolver EXCEPT
                             !.stack = Append(advanced, [file |-> target, index |-> 1,
                                                         depth |-> top.depth + 1]),
                             !.visited = @ \cup {target},
                             !.resolved = Append(@, target),
                             !.expanded = Append(@, target)]
                    ELSE resolver' = [resolver EXCEPT
                             !.stack = advanced,
                             !.visited = @ \cup {target},
                             !.resolved = Append(@, target)]
    /\ UNCHANGED <<serviceVars, parserVars, includeVars, symbolVars, providerVars>>

InitResolver ==
    /\ InitService
    /\ NoParserUnderTest
    /\ NoIncludeQuery
    /\ symbols = NoSymbols
    /\ NoProviders
    /\ \E maxDepth \in MaxDepths, optionalStatus \in {"ok", "missing"} :
           \/ resolver = IncludeResolver(maxDepth, optionalStatus)
           \/ resolver = [IncludeResolver(maxDepth, optionalStatus) EXCEPT !.fs = DiamondFiles]

NextResolver ==
    \/ \E from \in ResolverFiles, to \in ResolverFiles : AddInclude(from, to)
    \/ StartResolve(EntryFile)
    \/ ResolveStep

SpecResolver == InitResolver /\ [][NextResolver]_vars

\* resolveAllIncludes is synchronous: once called it runs until it returns.
SpecResolverFair == InitResolver /\ [][NextResolver]_vars /\ WF_vars(ResolveStep)

\* ------------------------------------------------------------------ resolveIncludePath

\* The most library search paths an IncludeResolver is configured with.
MaxLibraryPaths == 2

\* The directories of the including files and the directories a library may lie in.
SourceDirs == {"/workspace", "/workspace/lib"}
LibraryDirs == {"/path1", "/path2"}

IncludeNames == {"File.au3"}

\* path.join(dir, name) and path.dirname(file): a path is a directory and a name.
PathJoin(dir, name) == [dir |-> dir, name |-> name]
Dirname(file) == file.dir

SourcePaths == {PathJoin(dir, "main.au3") : dir \in SourceDirs}

\* The paths resolveIncludePath may test.
Candidates == {PathJoin(dir, name) : dir \in SourceDirs \cup LibraryDirs, name \in IncludeNames}

\* What the existence check does on a path: it finds a file, finds none, or fails.
Existences == [Candidates -> {"exists", "absent", "error"}]

\* The directives parseIncludes yields: "name" is relative, <name> is library.
IncludeDirectives == [type : {"relative", "library"}, path : IncludeNames]

\* The configured library search paths, in their configured order.
LibraryPathLists ==
    UNION {[1 .. n -> LibraryDirs] : n \in 0 .. MaxLibraryPaths}

\* null, what resolveIncludePath returns when it finds no file.
NoPath == [dir |-> "", name |-> "null"]

\* A failing check is caught here and counts as a file that is not there.
FileExists(existence, candidate) == existence[candidate] = "exists"

\* The candidates of a library include, in the order they are tried.
LibraryCandidatesReversed(autoitIncludePaths, name) ==
    [i \in 1 .. Len(autoitIncludePaths) |->
        PathJoin(autoitIncludePaths[Len(autoitIncludePaths) + 1 - i], name)]

LibraryCandidates(autoitIncludePaths, name) ==
    [i \in 1 .. Len(autoitIncludePaths) |-> PathJoin(autoitIncludePaths[i], name)]

\* The first candidate from position i on that exists.
RECURSIVE FirstExisting(_, _, _)
FirstExisting(existence, candidates, i) ==
    IF i > Len(candidates) THEN NoPath
    ELSE IF FileExists(existence, candidates[i]) THEN candidates[i]
    ELSE FirstExisting(existence, candidates, i + 1)

\* resolveIncludePath(include, sourcePath)
ResolveIncludePath(existence, autoitIncludePaths, include, sourcePath) ==
    IF include.type = "relative"
    THEN FirstExisting(existence, <<PathJoin(Dirname(sourcePath), include.path)>>, 1)
    ELSE FirstExisting(existence, LibraryCandidates(autoitIncludePaths, include.path), 1)

NoPathCall == [made |-> FALSE]

\* A call of resolveIncludePath on the resolver under test, with what it returned.
ResolvePath(include, sourcePath) ==
    /\ resolver.pc = "ready"
    /\ resolver' = [resolver EXCEPT !.lastCall =
           [made |-> TRUE, include |-> include, sourcePath |-> sourcePath,
            result |-> ResolveIncludePath(resolver.existence, resolver.autoitIncludePaths,
                                          include, sourcePath)]]
    /\ UNCHANGED <<serviceVars, parserVars, includeVars, symbolVars, providerVars>>

InitResolvePath ==
    /\ InitService
    /\ NoParserUnderTest
    /\ NoIncludeQuery
    /\ symbols = NoSymbols
    /\ NoProviders
    /\ \E autoitIncludePaths \in LibraryPathLists, existence \in Existences :
           resolver = [pc |-> "ready", autoitIncludePaths |-> autoitIncludePaths,
                       existence |-> existence, lastCall |-> NoPathCall]

NextResolvePath ==
    \E include \in IncludeDirectives, sourcePath \in SourcePaths : ResolvePath(include, sourcePath)

SpecResolvePath == InitResolvePath /\ [][NextResolvePath]_vars

\* ------------------------------------------------------------------ workspace symbols

\* The number of scripts workspace.findFiles yields.
NumFiles == 3

\* The cancellation tokens of the provideWorkspaceSymbols requests, one for each request,
\* in the order the requests are made.
Tokens == {1, 2}

\* workspace.findFiles('**/*.{au3,a3x}'): the matching files, in the order it yields them.
WorkspaceScripts == [n \in 1 .. NumFiles |-> n]

\* autoit.workspaceSymbolMaxFiles and autoit.workspaceSymbolBatchSize as configured.
MaxFilesSettings == 1 .. NumFiles
BatchSizeSettings == {1, 2}

\* The query strings of the requests.
QueryStrings == {"", "ALP"}

\* The symbol every version of a script declares: Alpha in the scripts with an odd
\* number, beta in the others.
SymbolName(file) == IF file % 2 = 1 THEN "Alpha" ELSE "beta"

\* symbol.name.toLowerCase().includes(query.toLowerCase()), for these names and queries
NameIncludes(name, query) == query = "" \/ (query = "ALP" /\ name = "Alpha")

\* files.slice(from, to), 0-based and `to` exclusive.
Slice(files, from, to) ==
    LET last == IF to < Len(files) THEN to ELSE Len(files)
    IN  IF from >= last THEN <<>> ELSE SubSeq(files, from + 1, last)

Elements(seq) == {seq[k] : k \in 1 .. Len(seq)}

NoSearchTimer == 0

\* A provideWorkspaceSymbols that leaves the timer of the call before it pending.
SearchClearNothing(ts, remembered) == ts

\* if (searchDebounceTimer) clearTimeout(searchDebounceTimer), lines 189-191: the timer
\* remembered is dropped if it is still pending.
SearchClear(ts, remembered) == ts \ {remembered}

\* symbolsCache, a Map from a file to the symbols read from it (here: the version of the
\* file they were read from): set and delete.
CacheSet(cache, file, value) ==
    [f \in DOMAIN cache \cup {file} |-> IF f = file THEN value ELSE cache[f]]

\* A handler that clears the entire cache where one entry is to go.
CacheDeleteAll(cache, file) == <<>>

CacheDelete(cache, file) == [f \in DOMAIN cache \ {file} |-> cache[f]]

\* symbols.forEach((value, key) => symbolsCache.set(key, value)), lines 200-202
CacheSetAll(cache, results, contents) ==
    [f \in DOMAIN cache \cup results |-> IF f \in results THEN contents[f] ELSE cache[f]]

\* What a request resolves with (lines 206-223): nothing when its token is cancelled,
\* otherwise the symbols of the cache whose name includes the query.
Resolve(cache, query, cancelled) ==
    IF cancelled THEN {}
    ELSE {[file |-> f, version |-> cache[f], name |-> SymbolName(f)] :
              f \in {g \in DOMAIN cache : NameIncludes(SymbolName(g), query)}}

\* Promise.all(batch.map(...)) settles only when every file of the batch has.
BatchSettledByFirst(inflight, batch) == inflight # batch
BatchSettled(inflight, batch) == inflight = {}

\* A batch whose results are lost when one of its files cannot be opened.
BatchResultsLostOnFailure(batchResults, file, opens) ==
    IF opens THEN batchResults \cup {file} ELSE {}

\* The results of a batch after one more file (lines 79-138): the file counts when it
\* was opened and its symbols provided; the catch clause yields null for it, which is
\* left out, and nothing else is touched.
BatchResults(batchResults, file, opens) ==
    IF opens THEN batchResults \cup {file} ELSE batchResults

\* A loop that goes on with the next batch whatever the token says.
LoopHeadIgnoringToken(b, i, cancelled) ==
    IF i >= Len(b.files)
    THEN [b EXCEPT !.pc = "returned", !.i = i]
    ELSE LET batch == Elements(Slice(b.files, i, i + b.batchSize))
         IN  [b EXCEPT !.pc = "batch", !.i = i,
                       !.batch = batch,
                       !.inflight = @ \cup batch,
                       !.batchResults = {},
                       !.opened = @ \cup batch,
                       !.openedAfter = [f \in batch |-> b.yields] @@ @]

\* processBatch from the head of its loop (lines 68-81) with index i: a cancelled token
\* or the end of the list leaves the loop, otherwise the files of the next batch are all
\* opened at once.  `opened` and `openedAfter` remember every file opened and the number
\* of times the call had yielded when it was.
LoopHead(b, i, cancelled) ==
    IF i >= Len(b.files) \/ cancelled
    THEN [b EXCEPT !.pc = "returned", !.i = i]
    ELSE LET batch == Elements(Slice(b.files, i, i + b.batchSize))
         IN  [b EXCEPT !.pc = "batch", !.i = i,
                       !.batch = batch,
                       !.inflight = @ \cup batch,
                       !.batchResults = {},
                       !.opened = @ \cup batch,
                       !.openedAfter = [f \in batch |-> b.yields] @@ @]

\* provideWorkspaceSymbols(query, token): the timer remembered is cleared and a new one
\* is set (lines 188-193, 225).  `superseded` remembers the calls whose timer was still
\* pending when this call came, that is, the calls made within the debounce window
\* before it.
ProvideWorkspaceSymbols(query) ==
    /\ symbols.nextToken \in Tokens
    /\ symbols' = [symbols EXCEPT
           !.pending = SearchClear(@, symbols.searchDebounceTimer) \cup {symbols.nextToken},
           !.searchDebounceTimer = symbols.nextToken,
           !.queries = (symbols.nextToken :> query) @@ @,
           !.superseded = @ \cup symbols.pending,
           !.nextToken = @ + 1]
    /\ UNCHANGED <<serviceVars, parserVars, includeVars, resolverVars, providerVars>>

\* The host cancels the token of a request that has not been answered.  `cancelledAt`
\* remembers the files the request's processBatch had opened by then.
Cancel(token) ==
    /\ token \notin symbols.cancelled
    /\ \/ token \in symbols.pending
       \/ token \in DOMAIN symbols.builds /\ symbols.builds[token].pc # "done"
    /\ symbols' = [symbols EXCEPT
           !.cancelled = @ \cup {token},
           !.cancelledAt = (token :> IF token \in DOMAIN symbols.builds
                                     THEN symbols.builds[token].opened ELSE {}) @@ @]
    /\ UNCHANGED <<serviceVars, parserVars, includeVars, resolverVars, providerVars>>

\* The timer of a request fires (lines 193-196): with an empty cache getWorkspaceSymbols
\* is called, which reads the configuration and awaits workspace.findFiles (lines
\* 156-160); otherwise the request is answered from the cache (lines 206-223).
\* `lookups` remembers the query the callback works with.
SearchTimerFires(token) ==
    /\ token \in symbols.pending
    /\ symbols' = [symbols EXCEPT
           !.pending = @ \ {token},
           !.lookups = (token :> symbols.queries[token]) @@ @,
           !.builds = IF DOMAIN symbols.symbolsCache = {}
                      THEN (token :> [pc |-> "findFiles", files |-> <<>>,
                                      batchSize |-> symbols.batchSize, i |-> 0,
                                      batch |-> {}, inflight |-> {}, batchResults |-> {},
                                      results |-> {}, contents |-> <<>>, failed |-> {},
                                      yields |-> 0, opened |-> {},
                                      openedAfter |-> <<>>]) @@ @
                      ELSE @,
           !.answers = IF DOMAIN symbols.symbolsCache = {} THEN @
                       ELSE (token :> Resolve(symbols.symbolsCache, symbols.queries[token],
                                              token \in symbols.cancelled)) @@ @]
    /\ UNCHANGED <<serviceVars, parserVars, includeVars, resolverVars, providerVars>>

\* The end of the timer callback once processBatch has returned (lines 198-223): the
\* results enter the cache unless the token is cancelled, and the request is answered.
\* `wrote` remembers the requests that wrote their results to the cache.
Answer(s, token) ==
    LET b == s.builds[token]
        cancelled == token \in s.cancelled
        cache == IF cancelled THEN s.symbolsCache
                 ELSE CacheSetAll(s.symbolsCache, b.results, b.contents)
    IN  IF b.pc # "returned" THEN s
        ELSE [s EXCEPT !.builds[token].pc = "done",
                       !.symbolsCache = cache,
                       !.wrote = IF cancelled THEN @ ELSE @ \cup {token},
                       !.answers = (token :> Resolve(cache, s.queries[token], cancelled)) @@ @]

\* await workspace.findFiles resolves (lines 160-171): the list is cut to maxFiles, the
\* warning is shown when it was longer, and processBatch starts on it.
FindFilesResolves(token) ==
    /\ token \in DOMAIN symbols.builds
    /\ symbols.builds[token].pc = "findFiles"
    /\ LET filesToProcess == Slice(WorkspaceScripts, 0, symbols.maxFiles)
           started == LoopHead([symbols.builds[token] EXCEPT !.files = filesToProcess], 0,
                               token \in symbols.cancelled)
           warned == [symbols EXCEPT
                         !.warnings = IF Len(WorkspaceScripts) > symbols.maxFiles
                                      THEN @ + 1 ELSE @,
                         !.builds[token] = started]
       IN  symbols' = Answer(warned, token)
    /\ UNCHANGED <<serviceVars, parserVars, includeVars, resolverVars, providerVars>>

\* The work on one file of a batch ends (lines 79-129): with its symbols, or with null
\* when the file could not be opened or its symbols not provided (`failed` remembers
\* these files).  When the whole batch has settled its results are kept and the call
\* awaits setImmediate (lines 134-141).
FileSettles(token, file, opens) ==
    /\ token \in DOMAIN symbols.builds
    /\ file \in symbols.builds[token].inflight
    /\ LET b == symbols.builds[token]
           inflight == b.inflight \ {file}
           batchResults == BatchResults(b.batchResults, file, opens)
           read == [b EXCEPT !.inflight = inflight,
                             !.batchResults = batchResults,
                             !.failed = IF opens THEN @ ELSE @ \cup {file},
                             !.contents = IF opens THEN (file :> symbols.disk[file]) @@ @
                                          ELSE @]
       IN  symbols' = [symbols EXCEPT !.builds[token] =
               IF b.pc = "batch" /\ BatchSettled(inflight, b.batch)
               THEN [read EXCEPT !.pc = "yield", !.results = @ \cup batchResults]
               ELSE read]
    /\ UNCHANGED <<serviceVars, parserVars, includeVars, resolverVars, providerVars>>

\* setImmediate runs the continuation: the loop goes on with the next batch, or
\* processBatch returns and the request is answered.
Yielded(token) ==
    /\ token \in DOMAIN symbols.builds
    /\ symbols.builds[token].pc = "yield"
    /\ LET b == symbols.builds[token]
           next == LoopHead([b EXCEPT !.yields = @ + 1], b.i + b.batchSize,
                            token \in symbols.cancelled)
       IN  symbols' = Answer([symbols EXCEPT !.builds[token] = next], token)
    /\ UNCHANGED <<serviceVars, parserVars, includeVars, resolverVars, providerVars>>

\* The module as loaded, for a configuration of the workspace and a cache: no timer, no
\* request; every script on disk in its version 0.
ModuleLoaded(maxFiles, batchSize, cache) ==
    [symbolsCache |-> cache, searchDebounceTimer |-> NoSearchTimer, pending |-> {},
     maxFiles |-> maxFiles, batchSize |-> batchSize, nextToken |-> 1, queries |-> <<>>,
     cancelled |-> {}, cancelledAt |-> <<>>, superseded |-> {}, lookups |-> <<>>,
     answers |-> <<>>, wrote |-> {}, builds |-> <<>>, warnings |-> 0,
     disk |-> [f \in 1 .. NumFiles |-> 0], updates |-> [f \in 1 .. NumFiles |-> 0],
     events |-> 0, lastEvent |-> 0, deleted |-> {}, unopened |-> {}]

\* The module as loaded: an empty cache, no timer, and the configuration of the workspace.
InitSymbols ==
    /\ InitService
    /\ NoParserUnderTest
    /\ NoIncludeQuery
    /\ resolver = NoResolver
    /\ NoProviders
    /\ \E maxFiles \in MaxFilesSettings, batchSize \in BatchSizeSettings :
           symbols = ModuleLoaded(maxFiles, batchSize, <<>>)

NextSymbols ==
    \/ \E query \in QueryStrings : ProvideWorkspaceSymbols(query)
    \/ \E token \in Tokens : Cancel(token)
    \/ \E token \in Tokens : SearchTimerFires(token)
    \/ \E token \in Tokens : FindFilesResolves(token)
    \/ \E token \in Tokens, file \in 1 .. NumFiles, opens \in BOOLEAN :
           FileSettles(token, file, opens)
    \/ \E token \in Tokens : Yielded(token)

SpecSymbols == InitSymbols /\ [][NextSymbols]_vars

\* The host runs the timers, completes every file operation and runs the setImmediate
\* callbacks.
SpecSymbolsFair ==
    /\ SpecSymbols
    /\ \A token \in Tokens :
           /\ WF_vars(FindFilesResolves(token))
           /\ WF_vars(Yielded(token))
           /\ WF_vars(\E file \in 1 .. NumFiles, opens \in BOOLEAN :
                          FileSettles(token, file, opens))

\* The host also runs every timer that is pending: a timer that clearTimeout dropped is
\* not pending and never runs.
SpecSymbolsLive ==
    /\ SpecSymbolsFair
    /\ \A token \in Tokens : WF_vars(SearchTimerFires(token))

\* ------------------------------------------------------------------ the file watcher

\* The most watcher events delivered.
MaxEvents == 3

\* updateFileSymbols(uri) is called for a change or create event of the watcher (lines
\* 235-237, 298-299): the file has a new version on disk and the handler awaits
\* workspace.openTextDocument.  `deleted` holds the files whose latest event was a
\* delete.
FileChanged(file) ==
    /\ symbols.events < MaxEvents
    /\ symbols' = [symbols EXCEPT !.disk[file] = @ + 1,
                                  !.updates[file] = @ + 1,
                                  !.deleted = @ \ {file},
                                  !.events = @ + 1]
    /\ UNCHANGED <<serviceVars, parserVars, includeVars, resolverVars, providerVars>>

\* updateFileSymbols goes on (lines 237-286): the symbols of the file as it is on disk
\* are set for it, or, when it could not be opened, its entry is deleted.  `lastEvent`
\* is the file of the last handler that touched the cache, and `unopened` holds the
\* files a handler could not open or found deleted.
UpdateSettles(file, opens) ==
    /\ symbols.updates[file] > 0
    /\ symbols' = [symbols EXCEPT
           !.updates[file] = @ - 1,
           !.lastEvent = file,
           !.unopened = IF opens THEN @ ELSE @ \cup {file},
           !.symbolsCache = IF opens THEN CacheSet(@, file, symbols.disk[file])
                            ELSE CacheDelete(@, file)]
    /\ UNCHANGED <<serviceVars, parserVars, includeVars, resolverVars, providerVars>>

\* removeFileSymbols(uri) for a delete event of the watcher (lines 293-295, 300)
FileDeleted(file) ==
    /\ symbols.events < MaxEvents
    /\ symbols' = [symbols EXCEPT !.events = @ + 1,
                                  !.lastEvent = file,
                                  !.deleted = @ \cup {file},
                                  !.unopened = @ \cup {file},
                                  !.symbolsCache = CacheDelete(@, file)]
    /\ UNCHANGED <<serviceVars, parserVars, includeVars, resolverVars, providerVars>>

\* The cache as an index build leaves it: the symbols of some of the scripts, each read
\* from version 0.
InitWatcher ==
    /\ InitService
    /\ NoParserUnderTest
    /\ NoIncludeQuery
    /\ resolver = NoResolver
    /\ NoProviders
    /\ \E cached \in SUBSET (1 .. NumFiles) :
           symbols = ModuleLoaded(NumFiles, 1, [f \in cached |-> 0])

NextWatcher ==
    \/ \E file \in 1 .. NumFiles : FileChanged(file)
    \/ \E file \in 1 .. NumFiles, opens \in BOOLEAN : UpdateSettles(file, opens)
    \/ \E file \in 1 .. NumFiles : FileDeleted(file)

\* The events of the file system watcher on a cache that was built.
SpecWatcher == InitWatcher /\ [][NextWatcher]_vars

\* ------------------------------------------------------------------ include completions

\* ai_completion.js, line 18
MAX_CACHE_SIZE == 50

\* The documents of the editor: 1..NumDocuments, enough to fill the cache and one more.
NumDocuments == 51

Documents == 1..NumDocuments

\* The document whose include lines are edited and which is closed and reopened.
EditedDocuments == {1}

\* The include lists (includesCheck, in document order) of an edited document, and the
\* list of every other document.
IncludeLists == {<<"a.au3", "b.au3">>, <<"b.au3", "a.au3">>, <<"a.au3", "a.au3">>}
IncludeListOf(doc) == IF doc \in EditedDocuments THEN IncludeLists ELSE {<<"a.au3", "b.au3">>}

\* Object.keys(getIncludeData(include, document)): the functions an included file
\* declares.
GetIncludeData(include) == IF include = "a.au3" THEN <<"FromA">> ELSE <<"FromB">>

\* arraysMatch(arr1, arr2), lines 55-60
ArraysMatch(arr1, arr2) ==
    /\ Len(arr1) = Len(arr2)
    /\ \A i \in 1..Len(arr1) : \E j \in 1..Len(arr2) : arr2[j] = arr1[i]

\* The Map includeCache as the sequence of its entries in insertion order.
RECURSIVE MapDelete(_, _)
MapDelete(cache, key) ==
    IF cache = <<>> THEN <<>>
    ELSE IF Head(cache).key = key THEN Tail(cache)
    ELSE <<Head(cache)>> \o MapDelete(Tail(cache), key)

MapHas(cache, key) == \E i \in 1..Len(cache) : cache[i].key = key

MapGet(cache, key) == cache[CHOOSE i \in 1..Len(cache) : cache[i].key = key]

\* Map.prototype.set: a key the map has keeps its place.
MapSet(cache, key, value) ==
    IF MapHas(cache, key)
    THEN [i \in 1..Len(cache) |-> IF cache[i].key = key THEN value ELSE cache[i]]
    ELSE Append(cache, value)

\* An enforceCacheLimit that lets the cache grow one entry past the limit.
EnforceCacheLimitLate(cache) ==
    IF Len(cache) > MAX_CACHE_SIZE + 1 THEN Tail(cache) ELSE cache

\* enforceCacheLimit(cache), lines 66-71
EnforceCacheLimit(cache) ==
    IF Len(cache) > MAX_CACHE_SIZE THEN Tail(cache) ELSE cache

\* The completion items built for an include list (lines 91-102): for each include in
\* turn, one item per function of the file.
RECURSIVE BuildCompletions(_)
BuildCompletions(includesCheck) ==
    IF includesCheck = <<>> THEN <<>>
    ELSE [k \in 1..Len(GetIncludeData(Head(includesCheck))) |->
             [label |-> GetIncludeData(Head(includesCheck))[k],
              detail |-> Head(includesCheck)]]
         \o BuildCompletions(Tail(includesCheck))

CacheEntry(doc, files, completions) ==
    [key |-> doc, files |-> files, completions |-> completions]

\* The keys of a sequence of keys without one of them.
WithoutKey(keys, key) ==
    LET Other(k) == k # key IN SelectSeq(keys, Other)

\* getIncludeCompletions(document, includesCheck), lines 79-109.  Documents are first
\* asked about in the order of their numbers, and only the edited ones are asked
\* about again.  `used` lists the cached documents from the one whose last request is
\* the oldest to the one asked about last; `last` keeps, of the request, the document
\* whose entry it evicted (0 when none) and the head of `used` at that moment.
GetIncludeCompletions(doc, includesCheck) ==
    /\ doc = completion.opened + 1 \/ (doc <= completion.opened /\ doc \in EditedDocuments)
    /\ LET cache == completion.includeCache
           hit == MapHas(cache, doc) /\ ArraysMatch(includesCheck, MapGet(cache, doc).files)
           built == BuildCompletions(includesCheck)
           inserted == MapSet(cache, doc, CacheEntry(doc, includesCheck, built))
           limited == EnforceCacheLimit(inserted)
           evicted == IF ~hit /\ Len(limited) < Len(inserted) THEN Head(inserted).key ELSE 0
           used == Append(WithoutKey(completion.used, doc), doc)
       IN  completion' =
               [includeCache |->
                    IF hit THEN MapSet(MapDelete(cache, doc), doc, MapGet(cache, doc))
                    ELSE limited,
                opened |-> IF doc > completion.opened THEN doc ELSE completion.opened,
                used |-> WithoutKey(used, evicted),
                last |-> [doc |-> doc, includesCheck |-> includesCheck, hit |-> hit,
                          returned |-> IF hit THEN MapGet(cache, doc).completions ELSE built,
                          evicted |-> evicted, oldest |-> Head(used)]]
    /\ UNCHANGED <<serviceVars, parserVars, includeVars, resolverVars, symbolVars, document,
                   extension>>

\* workspace.onDidCloseTextDocument (lines 29-34), for an AutoIt document
CloseTextDocument(doc) ==
    /\ doc <= completion.opened
    /\ completion' = [completion EXCEPT !.includeCache = MapDelete(@, doc),
                                        !.used = WithoutKey(@, doc)]
    /\ UNCHANGED <<serviceVars, parserVars, includeVars, resolverVars, symbolVars, document,
                   extension>>

NoRequest == [none |-> "request"]

InitCompletion ==
    /\ InitService
    /\ NoParserUnderTest
    /\ NoIncludeQuery
    /\ resolver = NoResolver
    /\ symbols = NoSymbols
    /\ document = NoDocument
    /\ extension = NoExtension
    /\ completion = [includeCache |-> <<>>, opened |-> 0, used |-> <<>>, last |-> NoRequest]

NextCompletion ==
    \/ \E doc \in Documents : \E includesCheck \in IncludeListOf(doc) :
           GetIncludeCompletions(doc, includesCheck)
    \/ \E doc \in EditedDocuments : CloseTextDocument(doc)

\* Completion requests over the documents and the closing of documents.
SpecCompletion == InitCompletion /\ [][NextCompletion]_vars

\* ------------------------------------------------------------------ document symbols

\* The most lines of a document whose symbols are provided.
MaxSymbolLines == 3

RegionLine(name) == [kind |-> "region", name |-> name]

\* The lines of the documents: a function with its end, a Map declaration, assignments
\* to the Map's keys, a region.
SymbolLines ==
    {FuncLine("F", <<>>), EndFuncLine, DeclLine("Local", "$m"), DotLine("$m", "a"),
     BracketLine("$m", <<"a", "b">>), RegionLine("R")}

SymbolDocuments == UNION {[1..n -> SymbolLines] : n \in 1..MaxSymbolLines}

\* The values of autoit.symbolMaxLines tried.
MaxLinesSettings == 1..MaxSymbolLines

Min(a, b) == IF a < b THEN a ELSE b

\* A symbol: its name, kind and container, the line its range starts at and the one it
\* ends at.
Symbol(name, kind, container, line, endLine) ==
    [name |-> name, kind |-> kind, container |-> container, line |-> line,
     endLine |-> endLine]

\* generateFunctionSymbol: the range runs from the Func line to the first EndFunc at or
\* after it; without one there is no symbol.
FunctionEnds(lines, i) == {k \in i..Len(lines) : lines[k].kind = "endfunc"}

\* findContainerForVariable: the first Function symbol found so far whose range holds
\* the line; its name, or "" when there is none.
ContainerOf(result, lineNum) ==
    LET holding == {k \in 1..Len(result) : /\ result[k].kind = "Function"
                                           /\ result[k].line <= lineNum
                                           /\ lineNum <= result[k].endLine}
    IN  IF holding = {} THEN ""
        ELSE result[CHOOSE k \in holding : \A j \in holding : k <= j].name

\* One turn of the loop over the lines (lines 544-581), for the line numbered i - 1:
\* parseFunctionFromText, parseVariablesFromText, parseRegionFromText.  processedSymbols
\* holds the names pushed so far.
SymbolsOfLine(lines, i, result) ==
    LET line == lines[i]
        processed == {result[k].name : k \in 1..Len(result)}
    IN  IF line.kind = "func"
        THEN IF line.fname \in processed \/ FunctionEnds(lines, i) = {} THEN result
             ELSE Append(result,
                         Symbol(line.fname, "Function", "", i - 1,
                                (CHOOSE k \in FunctionEnds(lines, i) :
                                     \A j \in FunctionEnds(lines, i) : k <= j) - 1))
        ELSE IF line.kind \in {"dot", "bracket", "dynamic"}
        THEN IF \E k \in 1..Len(result) :
                    /\ result[k].name = line.name
                    /\ result[k].container = ContainerOf(result, i - 1)
             THEN result
             ELSE Append(result,
                         Symbol(line.name, "Variable", ContainerOf(result, i - 1),
                                i - 1, i - 1))
        ELSE IF line.kind = "region"
        THEN IF line.name \in processed THEN result
             ELSE Append(result, Symbol(line.name, "Namespace", "", i - 1, Len(lines) - 1))
        ELSE result

\* for (let lineNum = 0; lineNum < lineCount; lineNum += 1)
RECURSIVE ScanSymbols(_, _, _, _)
ScanSymbols(lines, i, lineCount, result) ==
    IF i > lineCount THEN result
    ELSE ScanSymbols(lines, i + 1, lineCount, SymbolsOfLine(lines, i, result))

\* convertToDocumentSymbols: a symbol whose container is a function converted before it
\* becomes a child of that function, every other one stays at the top level; name, kind
\* and range are kept.
RECURSIVE ConvertToDocumentSymbols(_, _, _)
ConvertToDocumentSymbols(infos, i, out) ==
    IF i > Len(infos) THEN out
    ELSE LET s == [name |-> infos[i].name, kind |-> infos[i].kind,
                   detail |-> infos[i].container, line |-> infos[i].line,
                   children |-> {}]
             parents == {k \in 1..Len(out) : /\ out[k].kind = "Function"
                                             /\ out[k].name = infos[i].container}
         IN  ConvertToDocumentSymbols(infos, i + 1,
                 IF infos[i].container # "" /\ parents # {}
                 THEN [out EXCEPT ![CHOOSE k \in parents : TRUE].children =
                                      @ \cup {[name |-> s.name, line |-> s.line]}]
                 ELSE Append(out, s))

\* Object.values(keysObj).sort((a, b) => a.line - b.line), line 348, over the nodes at
\* the paths `todo`: the nodes in ascending order of their lines.  The nodes of one
\* children object of a file's tree are made by different assignments, so that no two
\* of them have the same line.
RECURSIVE SortedKeys(_, _)
SortedKeys(tree, todo) ==
    IF todo = {} THEN <<>>
    ELSE LET first == CHOOSE q \in todo : \A r \in todo : tree[q].line <= tree[r].line
         IN  <<first>> \o SortedKeys(tree, todo \ {first})

\* createKeySymbols(doc, keysObj, containerName), lines 344-411, for the children of the
\* node at `prefix`: one key symbol per node, in sorted order, with the key symbols of
\* the node's own children as its children.
RECURSIVE CreateKeySymbols(_, _)
CreateKeySymbols(tree, prefix) ==
    LET sortedKeys == SortedKeys(tree, ChildPaths(tree, prefix))
    IN  [k \in 1..Len(sortedKeys) |->
            [key |-> tree[sortedKeys[k]].key, line |-> tree[sortedKeys[k]].line,
             children |-> CreateKeySymbols(tree, sortedKeys[k])]]

\* createMapSymbols and createKeySymbols: the symbol of a Map declaration, on the line of
\* the declaration, with a key symbol for every node of the structure, each on the line
\* of its first assignment; `children` holds every key symbol below the Map, named by
\* its key path, and `keys` the key symbols level by level, in the order they are listed.
CreateMapSymbols(mapDecl, mapStructure) ==
    [name |-> mapDecl.name, kind |-> "Variable", detail |-> "Map", line |-> mapDecl.line,
     children |-> {[name |-> q, line |-> mapStructure[q].line] : q \in DOMAIN mapStructure},
     keys |-> CreateKeySymbols(mapStructure, <<>>)]

\* addMapSymbols, the loop over parser.parseMapDeclarations() (lines 498-506): the
\* Parser is the one of the whole text (doc.getText()); an exception ends the loop and
\* is caught (lines 507-514), the symbols pushed so far stay.  The document includes no
\* file.
RECURSIVE AddMapSymbols(_, _, _, _)
AddMapSymbols(lines, decls, i, out) ==
    IF i > Len(decls) THEN out
    ELSE LET mapStructure == BuildNestedMapStructure(lines, decls[i].name)
         IN  IF mapStructure = Thrown THEN out
             ELSE AddMapSymbols(lines, decls, i + 1,
                                Append(out, CreateMapSymbols(decls[i], mapStructure)))

\* What provideDocumentSymbols(doc) returns.
DocumentSymbols(lines, maxLines, enableMapIntelligence) ==
    LET lineCount == Min(Len(lines), maxLines)
        result == ScanSymbols(lines, 1, lineCount, <<>>)
    IN  IF enableMapIntelligence
        THEN AddMapSymbols(lines, ParseMapDeclarations(lines), 1,
                           ConvertToDocumentSymbols(result, 1, <<>>))
        ELSE [k \in 1..Len(result) |->
                 [name |-> result[k].name, kind |-> result[k].kind,
                  detail |-> result[k].container, line |-> result[k].line,
                  children |-> {}]]

\* provideDocumentSymbols(doc) for the document main.au3 (lines 525-598): the warning
\* shown once per file, the symbols, and with Map intelligence the updateFileImmediate
\* that addMapSymbols makes on the service (line 492).
ProvideDocumentSymbols(maxLines, enableMapIntelligence) ==
    /\ CanCall
    /\ document' = [document EXCEPT
           !.maxLines = maxLines,
           !.enableMapIntelligence = enableMapIntelligence,
           !.warnedFiles = Len(document.lines) > maxLines \/ @,
           !.warnings = IF Len(document.lines) > maxLines /\ ~document.warnedFiles
                        THEN @ + 1 ELSE @,
           !.calls = @ + 1,
           !.symbols = DocumentSymbols(document.lines, maxLines, enableMapIntelligence)]
    /\ IF enableMapIntelligence
       THEN /\ timers' = IF "main.au3" \in debouncedParseByFile
                         THEN DebounceCancel(timers, timeout["main.au3"])
                         ELSE timers
            /\ fileParsers' = ParseFileParsers(fileParsers, ongoingParses, "main.au3",
                                               document.lines)
            /\ pendingParses' = ParseFilePending(pendingParses, ongoingParses, "main.au3")
            /\ Record("main.au3", "immediate", document.lines, document.lines)
       ELSE /\ Record("main.au3", "symbols", document.lines, NoSource)
            /\ UNCHANGED <<timers, fileParsers, pendingParses>>
    /\ UNCHANGED <<debouncedParseByFile, timeout, nextTimerId, ongoingParses, parserVars,
                   includeVars, resolverVars, symbolVars, completion, extension>>

\* The document is open with one of the texts; no symbols were asked for yet.
InitDocument ==
    /\ InitService
    /\ NoParserUnderTest
    /\ NoIncludeQuery
    /\ resolver = NoResolver
    /\ symbols = NoSymbols
    /\ completion = NoCompletion
    /\ extension = NoExtension
    /\ \E lines \in SymbolDocuments :
           document = [lines |-> lines, maxLines |-> 0, enableMapIntelligence |-> FALSE,
                       warnedFiles |-> FALSE, warnings |-> 0, calls |-> 0, symbols |-> <<>>]

NextDocument ==
    \E maxLines \in MaxLinesSettings, enableMapIntelligence \in BOOLEAN :
        ProvideDocumentSymbols(maxLines, enableMapIntelligence)

\* provideDocumentSymbols called on one document under changing settings.
SpecDocument == InitDocument /\ [][NextDocument]_vars

\* ------------------------------------------------------------------ arguments of calls

\* Texts about argument positions: a function F of two parameters, either of which may
\* receive a key in the body, and calls that pass the map first, second or twice.
ArgumentTopLines ==
    {DeclLine("Global", "$m"), FuncLine("F", <<"$p", "$q">>),
     CallLine("F", <<"$m", "$x">>), CallLine("F", <<"$x", "$m">>),
     CallLine("F", <<"$m", "$m">>)}
ArgumentBodyLines == {DotLine("$p", "name"), DotLine("$q", "zip"), EndFuncLine}

ArgumentLines(src) == IF FunctionOpen(src) THEN ArgumentBodyLines ELSE ArgumentTopLines

NextArguments ==
    \/ \E line \in ArgumentLines(parser.lines) : Reparse(line)
    \/ \E l \in QueryLines, f \in BOOLEAN : QueryKeys("$m", l, f)

\* One MapParser over the texts about argument positions, answering key queries.
SpecArguments == InitParser /\ [][NextArguments]_vars

\* ------------------------------------------------------------------ document events

\* The events of the editor handled in a run.
MaxDocumentEvents == 4

\* A change handler that arms a timer without clearing the one of the path.
UpdateTimersKeepOld(pending, updateTimers, path) == pending

\* onDocumentChange, lines 557-559, and the save and close handlers, lines 593-596 and
\* 610-613: clearTimeout(updateTimers.get(filePath)) when the table has the path.
UpdateTimersClear(pending, updateTimers, path) ==
    IF updateTimers[path] # NoTimer THEN ClearTimeout(pending, updateTimers[path])
    ELSE pending

\* updateTimers.delete(filePath)
UpdateTimersDelete(updateTimers, path) == [updateTimers EXCEPT ![path] = NoTimer]

DocumentEvent(op, path) == [op |-> op, path |-> path]

\* workspace.onDidChangeTextDocument for an AutoIt document whose text is now `text`
\* (lines 551-568, 580-584): the timer of the path is cleared and a new one is armed
\* and remembered.
DidChangeTextDocument(path, text) ==
    /\ extension.events < MaxDocumentEvents
    /\ extension' =
           [extension EXCEPT
              !.text[path] = text,
              !.pending = UpdateTimersClear(@, extension.updateTimers, path)
                              \cup {[id |-> extension.nextId, path |-> path]},
              !.updateTimers[path] = extension.nextId,
              !.nextId = @ + 1,
              !.events = @ + 1,
              !.lastEvent = DocumentEvent("change", path)]
    /\ UNCHANGED <<serviceVars, parserVars, includeVars, resolverVars, symbolVars,
                   completion, document>>

\* A timer armed by onDocumentChange fires (lines 562-565): updateFile with the text the
\* document has now, and the path leaves the table.
UpdateTimerFires(t) ==
    /\ t \in extension.pending
    /\ fileParsers' = [fileParsers EXCEPT ![t.path] = MapParser(extension.text[t.path])]
    /\ extension' =
           [extension EXCEPT
              !.pending = @ \ {t},
              !.updateTimers = UpdateTimersDelete(@, t.path),
              !.lastEvent = DocumentEvent("fire", t.path)]
    /\ UNCHANGED <<debouncedParseByFile, timeout, timers, nextTimerId, pendingParses,
                   ongoingParses, history, parserVars, includeVars, resolverVars,
                   symbolVars, completion, document>>

\* workspace.onDidSaveTextDocument for an AutoIt document (lines 587-601)
DidSaveTextDocument(path) ==
    /\ extension.events < MaxDocumentEvents
    /\ fileParsers' = [fileParsers EXCEPT ![path] = MapParser(extension.text[path])]
    /\ extension' =
           [extension EXCEPT
              !.pending = UpdateTimersClear(@, extension.updateTimers, path),
              !.updateTimers = UpdateTimersDelete(@, path),
              !.events = @ + 1,
              !.lastEvent = DocumentEvent("save", path)]
    /\ UNCHANGED <<debouncedParseByFile, timeout, timers, nextTimerId, pendingParses,
                   ongoingParses, history, parserVars, includeVars, resolverVars,
                   symbolVars, completion, document>>

\* workspace.onDidCloseTextDocument for an AutoIt document (lines 605-619): the file
\* stays tracked.
DidCloseTextDocument(path) ==
    /\ extension.events < MaxDocumentEvents
    /\ extension' =
           [extension EXCEPT
              !.pending = UpdateTimersClear(@, extension.updateTimers, path),
              !.updateTimers = UpdateTimersDelete(@, path),
              !.events = @ + 1,
              !.lastEvent = DocumentEvent("close", path)]
    /\ UNCHANGED <<serviceVars, parserVars, includeVars, resolverVars, symbolVars,
                   completion, document>>

\* The extension is activated with the edited files open: every open document is
\* parsed (lines 622-626) and no timer is armed.
InitExtension ==
    /\ fileParsers = [p \in Paths |-> IF p \in EditedPaths THEN MapParser(EditText(1))
                                      ELSE NoParser]
    /\ debouncedParseByFile = {}
    /\ timeout = [p \in Paths |-> NoTimer]
    /\ timers = {}
    /\ nextTimerId = 1
    /\ pendingParses = [p \in Paths |-> NoSource]
    /\ ongoingParses = {}
    /\ history = [p \in Paths |-> <<>>]
    /\ NoParserUnderTest
    /\ NoIncludeQuery
    /\ resolver = NoResolver
    /\ symbols = NoSymbols
    /\ completion = NoCompletion
    /\ document = NoDocument
    /\ extension = [updateTimers |-> [p \in EditedPaths |-> NoTimer], pending |-> {},
                    nextId |-> 1, text |-> [p \in EditedPaths |-> EditText(1)],
                    events |-> 0, lastEvent |-> DocumentEvent("activate", "main.au3")]

NextExtension ==
    \/ \E p \in EditedPaths, s \in Texts : DidChangeTextDocument(p, s)
    \/ \E t \in extension.pending : UpdateTimerFires(t)
    \/ \E p \in EditedPaths : DidSaveTextDocument(p)
    \/ \E p \in EditedPaths : DidCloseTextDocument(p)

\* The document events of the editor and the firing of the re-parse timers.
SpecExtension == InitExtension /\ [][NextExtension]_vars

\* ------------------------------------------------------------------ key symbols

\* The lines of the documents whose key symbols are looked at: a Map declaration and
\* assignments to keys at two levels, in an order that is not the alphabetical one, one
\* of the keys being a name every object inherits.
KeySymbolLines ==
    {DeclLine("Local", "$m"), DotLine("$m", "z"), DotLine("$m", "a"),
     BracketLine("$m", <<"z", "b">>), BracketLine("$m", <<"z", "a">>),
     DotLine("$m", "constructor")}

KeySymbolDocuments == UNION {[1..n -> KeySymbolLines] : n \in 1..MaxSymbolLines}

\* The document is open with one of the texts; no symbols were asked for yet.
InitKeySymbols ==
    /\ InitService
    /\ NoParserUnderTest
    /\ NoIncludeQuery
    /\ resolver = NoResolver
    /\ symbols = NoSymbols
    /\ completion = NoCompletion
    /\ extension = NoExtension
    /\ \E lines \in KeySymbolDocuments :
           document = [lines |-> lines, maxLines |-> 0, enableMapIntelligence |-> FALSE,
                       warnedFiles |-> FALSE, warnings |-> 0, calls |-> 0, symbols |-> <<>>]

\* provideDocumentSymbols called on one document with key assignments.
SpecKeySymbols == InitKeySymbols /\ [][NextDocument]_vars

\* ------------------------------------------------------------------ the index and the watcher

\* The module as loaded: an empty cache, no timer, and a workspace of which the index
\* takes every script or every script but the last.
InitIndex ==
    /\ InitService
    /\ NoParserUnderTest
    /\ NoIncludeQuery
    /\ resolver = NoResolver
    /\ NoProviders
    /\ \E maxFiles \in {NumFiles - 1, NumFiles} :
           symbols = ModuleLoaded(maxFiles, 2, <<>>)

\* The scripts the watcher reports events of.
WatchedFiles == {1}

\* Requests for every symbol, none of them cancelled, and the events of the watcher.
NextIndex ==
    \/ ProvideWorkspaceSymbols("")
    \/ \E token \in Tokens : SearchTimerFires(token)
    \/ \E token \in Tokens : FindFilesResolves(token)
    \/ \E token \in Tokens, file \in 1 .. NumFiles, opens \in BOOLEAN :
           FileSettles(token, file, opens)
    \/ \E token \in Tokens : Yielded(token)
    \/ \E file \in WatchedFiles : FileChanged(file)
    \/ \E file \in WatchedFiles, opens \in BOOLEAN : UpdateSettles(file, opens)
    \/ \E file \in WatchedFiles : FileDeleted(file)

\* The requests and the watcher together, from the loading of the module.
SpecIndex == InitIndex /\ [][NextIndex]_vars

\* ------------------------------------------------------------------ claims on updates

IsCall(e) == e.op # "fire"
PendingTimers(p) == {t \in timers : t.path = p}

\* [i..j] is a maximal-to-the-right run of updateFileDebounced calls in h.
DebouncedRun(h, i, j) ==
    /\ i <= j
    /\ \A k \in i..j : h[k].op = "debounced"
    /\ j < Len(h) => h[j + 1].op # "debounced"

\* C1: a run of updateFileDebounced calls for one path, none separated from the previous
\* one by a timer firing or by another update, causes exactly one re-parse: none while
\* the run lasts (one timer, carrying the last text, is pending), and when the timer
\* fires the Parser installed is built from the text of the last call, with no second
\* firing to follow.
C1_DebounceCoalesces ==
    \A p \in Paths :
        LET h == history[p] IN
        \A i \in 1..Len(h) : \A j \in i..Len(h) :
            DebouncedRun(h, i, j) =>
                /\ \A k \in i..j : h[k].installed = NoSource
                /\ j = Len(h) =>
                      /\ Cardinality(PendingTimers(p)) = 1
                      /\ \A t \in PendingTimers(p) : t.source = h[j].source
                /\ (j < Len(h) /\ h[j + 1].op = "fire") =>
                      /\ h[j + 1].installed = h[j].source
                      /\ j + 2 <= Len(h) => h[j + 2].op # "fire"
                      /\ j + 1 = Len(h) =>
                            /\ fileParsers[p] = MapParser(h[j].source)
                            /\ PendingTimers(p) = {}

\* Three rapid debounced calls with different first and last texts, then the timer fired.
C1_Witness ==
    \E p \in Paths :
        LET h == history[p] IN
        /\ Len(h) = 4
        /\ \A k \in 1..3 : h[k].op = "debounced"
        /\ h[4].op = "fire"
        /\ h[1].source # h[3].source
        /\ fileParsers[p] = MapParser(h[3].source)

\* The last update call made for a path.
RECURSIVE LastCall(_)
LastCall(h) == IF IsCall(h[Len(h)]) THEN h[Len(h)] ELSE LastCall(SubSeq(h, 1, Len(h) - 1))

HasCall(h) == \E k \in 1..Len(h) : IsCall(h[k])

\* C2: once no timer is pending for a path, its cached Parser is built from the text of
\* the most recently issued update call for that path.
C2_NewerResultWins ==
    \A p \in Paths :
        (HasCall(history[p]) /\ PendingTimers(p) = {}) =>
            fileParsers[p] = MapParser(LastCall(history[p]).source)

\* A debounced update is pending when call i is made: the last debounced call before i
\* has neither fired nor been cancelled.
PendingBefore(h, i) ==
    \E k \in 1..(i - 1) :
        /\ h[k].op = "debounced"
        /\ \A m \in (k + 1)..(i - 1) : h[m].op = "updateFile"

\* C3: an updateFileImmediate made while a debounced update of the path is pending
\* installs the Parser built from its own text, and the pending re-parse never runs: no
\* timer firing follows it, and until the next update call the cache keeps that Parser
\* and no timer is pending for the path.
C3_ImmediateSupersedes ==
    \A p \in Paths :
        LET h == history[p] IN
        \A i \in 1..Len(h) :
            (h[i].op = "immediate" /\ PendingBefore(h, i)) =>
                /\ h[i].installed = h[i].source
                /\ i < Len(h) => h[i + 1].op # "fire"
                /\ i = Len(h) =>
                      /\ fileParsers[p] = MapParser(h[i].source)
                      /\ PendingTimers(p) = {}

\* A debounced call with one text, then an immediate update with another.
C3_Witness ==
    \E p \in Paths :
        LET h == history[p] IN
        /\ Len(h) = 2
        /\ h[1].op = "debounced"
        /\ h[2].op = "immediate"
        /\ h[1].source # h[2].source
        /\ fileParsers[p] = MapParser(h[2].source)

\* ------------------------------------------------------------------ claims on getKeysForMapAtLine

Queried == lastQuery # NoQuery
QLines == parser.lines
QFunctions == parser.functions
QFuncOf(line) == GetFunctionAtLine(QFunctions, line)
QCurrentFunc == QFuncOf(lastQuery.targetLine)
QWinner == ClosestDecl(QLines, lastQuery.mapName, lastQuery.targetLine)
QDirect == lastQuery.result.directKeys
SeqToSet(seq) == {seq[k] : k \in 1..Len(seq)}
NoDuplicates(seq) == \A i, j \in 1..Len(seq) : i # j => seq[i] # seq[j]

\* The 0-based numbers of the lines that assign a key to the queried name, and the key
\* of such a line (the first key of a chain).
QAssignLines ==
    {k - 1 : k \in {k \in 1..Len(QLines) :
                       /\ QLines[k].kind \in {"dot", "bracket", "dynamic"}
                       /\ NameMatches(QLines[k].name, lastQuery.mapName)}}
QKeyAt(n) == QLines[n + 1].keys[1]

\* The 0-based numbers of the lines that declare the queried name.
QDeclLines ==
    {k - 1 : k \in {k \in 1..Len(QLines) :
                       /\ QLines[k].kind = "decl"
                       /\ NameMatches(QLines[k].name, lastQuery.mapName)}}

\* The text is one declaration of the queried name followed only by flat assignments to it.
FlatSource ==
    /\ Len(QLines) >= 1
    /\ QDeclLines = {0}
    /\ QAssignLines = 1..(Len(QLines) - 1)
    /\ \A n \in QAssignLines : QLines[n + 1].kind # "dynamic" /\ Len(QLines[n + 1].keys) = 1

FirstAssigned(key) ==
    CHOOSE n \in QAssignLines :
        QKeyAt(n) = key /\ \A m \in QAssignLines : QKeyAt(m) = key => n <= m

\* C4: for a text that is a single top-level declaration followed only by flat key
\* assignments, directKeys holds exactly the keys assigned on lines strictly before the
\* query line, each once, in order of first assignment.
C4_FlatKeysBeforeLine ==
    (Queried /\ FlatSource) =>
        /\ SeqToSet(QDirect) = {QKeyAt(n) : n \in {n \in QAssignLines : n < lastQuery.targetLine}}
        /\ NoDuplicates(QDirect)
        /\ \A i, j \in 1..Len(QDirect) :
               i < j => FirstAssigned(QDirect[i]) < FirstAssigned(QDirect[j])

\* A flat text that assigns one key twice and another once before the query line and has
\* a further assignment on the query line, which is left out.
C4_Witness ==
    /\ Queried /\ FlatSource
    /\ Len(QLines) = 5
    /\ lastQuery.targetLine = 4
    /\ QKeyAt(1) = QKeyAt(3) /\ QKeyAt(2) # QKeyAt(1) /\ QKeyAt(4) = QKeyAt(2)
    /\ QDirect = <<QKeyAt(1), QKeyAt(2)>>

C6_LocalBeforeGlobal ==
    (Queried /\ QCurrentFunc # NoFunc) =>
        LET inFunc == {n \in QDeclLines :
                          QFuncOf(n) = QCurrentFunc /\ n <= lastQuery.targetLine}
        IN  /\ inFunc # {} =>
                  /\ QWinner # NoDecl
                  /\ QWinner.line \in inFunc
                  /\ \A n \in inFunc : n <= QWinner.line
            /\ (QWinner # NoDecl /\ QFuncOf(QWinner.line) = NoFunc) =>
                  /\ inFunc = {}
                  /\ ToLowerCase(QWinner.scope) = "global"

\* A top-level Global declaration, then inside a function a declaration with another
\* keyword than Local: the query inside the function picks the latter.
C6_Witness ==
    /\ Queried /\ QCurrentFunc # NoFunc
    /\ \E g \in QDeclLines : QFuncOf(g) = NoFunc /\ ToLowerCase(QLines[g + 1].scope) = "global"
    /\ QWinner # NoDecl
    /\ QFuncOf(QWinner.line) = QCurrentFunc
    /\ ToLowerCase(QWinner.scope) # "local"

DeclInScope(n) ==
    /\ n <= lastQuery.targetLine
    /\ IF QCurrentFunc = NoFunc
       THEN QFuncOf(n) = NoFunc
       ELSE \/ (QFuncOf(n) # NoFunc /\ QFuncOf(n).name = QCurrentFunc.name)
            \/ (QFuncOf(n) = NoFunc /\ ToLowerCase(QLines[n + 1].scope) = "global")

\* C8: with no declaration of the name in scope at the query line, both key buckets are
\* empty, whatever assignments and call sites precede the line.
C8_NoDeclarationEmpty ==
    (Queried /\ ~(\E n \in QDeclLines : DeclInScope(n))) => lastQuery.result = EmptyKeys

\* No declaration in scope, yet an assignment to the name and a call that passes it to a
\* function assigning keys to the matching parameter both precede the query line.
C8_Witness ==
    /\ Queried
    /\ ~(\E n \in QDeclLines : DeclInScope(n))
    /\ lastQuery.includeFunctionKeys
    /\ \E a \in QAssignLines : a < lastQuery.targetLine /\ QFuncOf(a) = NoFunc
    /\ GetKeysFromFunctionCalls(QLines, lastQuery.mapName, lastQuery.targetLine) # <<>>
    /\ lastQuery.result = EmptyKeys

\* ------------------------------------------------------------------ claims on include-aware queries

Done == call.pc = "done"
\* The included files the call merged: those it did not skip after a failed read.
MergedFiles == SelectSeq(call.includedFiles, LAMBDA f : f \notin call.failed)
\* What the query's own file yields at the query line.
LocalKeys == GetKeysForMap(fileParsers, call.filePath, call.mapName, call.line)
\* What a cached file yields when asked at its end, the line after its last line.
EndKeys(f) ==
    GetKeysForMapAtLine(fileParsers[f].lines, call.mapName, Len(fileParsers[f].lines), TRUE)

RECURSIVE ConcatFunctionKeys(_)
ConcatFunctionKeys(files) ==
    IF files = <<>> THEN <<>>
    ELSE EndKeys(Head(files)).functionKeys \o ConcatFunctionKeys(Tail(files))

\* The keys a cached file assigns to the map outside every function.
TopLevelKeys(f) ==
    LET lines == fileParsers[f].lines
        functions == ParseFunctionBoundaries(lines)
        assignments == ParseKeyAssignments(lines, call.mapName)
    IN  {assignments[k].key : k \in {j \in 1..Len(assignments) :
                                        GetFunctionAtLine(functions, assignments[j].line) = NoFunc}}

\* A cached file declares the map outside every function.
DeclaresAtTopLevel(f) ==
    LET lines == fileParsers[f].lines
        functions == ParseFunctionBoundaries(lines)
        declarations == ParseMapDeclarations(lines)
    IN  \E k \in 1..Len(declarations) :
            /\ NameMatches(declarations[k].name, call.mapName)
            /\ GetFunctionAtLine(functions, declarations[k].line) = NoFunc

\* The union and the concatenation getKeysForMapWithIncludes returns: directKeys holds
\* every key once and is, as a set, the local directKeys at the query line united with
\* the directKeys of every merged include asked at its end; functionKeys is the local
\* functionKeys followed by every include's functionKeys in include order.
UnionOfIncludes ==
    /\ NoDuplicates(call.allDirectKeys)
    /\ SeqToSet(call.allDirectKeys) =
           SeqToSet(LocalKeys.directKeys)
           \cup UNION {SeqToSet(EndKeys(f).directKeys) : f \in SeqToSet(MergedFiles)}
    /\ call.allFunctionKeys = LocalKeys.functionKeys \o ConcatFunctionKeys(MergedFiles)

\* C9 as stated: the result is that union and concatenation, so that all the top-level
\* keys of every included file are in directKeys whatever the query line.
C9_AllIncludedKeysVisible ==
    (Done /\ call.kind = "keys") =>
        /\ UnionOfIncludes
        /\ \A f \in SeqToSet(MergedFiles) : TopLevelKeys(f) \subseteq SeqToSet(call.allDirectKeys)

\* C9: when getKeysForMapWithIncludes returns, directKeys holds every key once and is,
\* as a set, the local directKeys at the query line united with the directKeys of every
\* resolved include asked at its end; functionKeys is the local functionKeys followed
\* by every include's functionKeys in include order, repeated keys kept.  An included
\* file that declares the map at top level has all its top-level keys in directKeys
\* whatever the query line; one that does not contributes no key at all.  (An include
\* skipped after a failed read is not merged.)
C9_IncludeKeysUnion ==
    (Done /\ call.kind = "keys") =>
        /\ UnionOfIncludes
        /\ \A f \in SeqToSet(MergedFiles) :
              IF DeclaresAtTopLevel(f)
              THEN TopLevelKeys(f) \subseteq SeqToSet(call.allDirectKeys)
              ELSE EndKeys(f) = EmptyKeys

\* A query at line 3 of main.au3 with two includes, none skipped: "name" is local and in
\* util.au3, "zip" is a function key of main.au3 and of lib.au3, and the keys of the
\* includes stand on lines past line 3 of their files.
C9_Witness ==
    /\ Done
    /\ call.kind = "keys"
    /\ call.line = 3
    /\ call.includedFiles = <<"lib.au3", "util.au3">>
    /\ call.failed = {}
    /\ call.allDirectKeys = <<"name", "age", "addr", "city">>
    /\ Len(call.allFunctionKeys) = 2
    /\ call.allFunctionKeys[1] = call.allFunctionKeys[2]

\* The result of each query computed over a given include list, from the cache as it is.
RECURSIVE KeysOver(_, _)
KeysOver(c, files) ==
    IF files = <<>> THEN c
    ELSE KeysOver(MergeKeys(c, GetKeysForMap(fileParsers, Head(files), call.mapName, Infinity)),
                  Tail(files))

RECURSIVE StructureOver(_, _)
StructureOver(tree, files) ==
    IF files = <<>> THEN tree
    ELSE StructureOver(MergeMapStructures(tree, GetMapStructure(fileParsers, Head(files),
                                                                call.mapName)),
                       Tail(files))

\* C10: a file whose read failed during getKeysForMapWithIncludes or
\* getMapStructureWithIncludes has no Parser cached, and the call still returns: its
\* result is the one computed over the include list without the failing files.
C10_ReadFailureSkipsFile ==
    (call.pc # "idle") =>
        /\ \A f \in call.failed : fileParsers[f] = NoParser
        /\ (Done /\ call.failed # {}) =>
              IF call.kind = "keys"
              THEN LET start == [allDirectKeys |-> AddAll(<<>>, LocalKeys.directKeys),
                                 allFunctionKeys |-> LocalKeys.functionKeys]
                       expected == KeysOver(start, MergedFiles)
                   IN  /\ call.allDirectKeys = expected.allDirectKeys
                       /\ call.allFunctionKeys = expected.allFunctionKeys
              ELSE call.currentStructure =
                       StructureOver(GetMapStructure(fileParsers, call.filePath, call.mapName),
                                     MergedFiles)

\* lib.au3 exists but cannot be read, util.au3 after it is read and merged: the call has
\* returned with the keys of util.au3 and nothing is cached for lib.au3.
C10_Witness ==
    /\ Done
    /\ call.kind = "keys"
    /\ call.includedFiles = <<"lib.au3", "util.au3">>
    /\ call.failed = {"lib.au3"}
    /\ disk["lib.au3"].status = "unreadable"
    /\ fileParsers["lib.au3"] = NoParser
    /\ fileParsers["util.au3"] # NoParser
    /\ "city" \in SeqToSet(call.allDirectKeys)

\* ------------------------------------------------------------------ claims on resolveAllIncludes

Resolving == resolver.pc \in {"running", "done"}

Resolved == resolver.pc = "done"

NoRepeat(seq) == \A i \in 1 .. Len(seq) : \A j \in 1 .. Len(seq) : i # j => seq[i] # seq[j]

Range(seq) == {seq[i] : i \in 1 .. Len(seq)}

\* `from` holds a directive naming `to`.
Includes(from, to) == to \in Range(ParseIncludes(resolver.fs, from))

\* C11: a call of resolveAllIncludes always returns, whatever the include graph, cycles
\* and self-includes among them, and the cut is the visited set: no file has its
\* directives read twice during one call.
C11_TraversalTerminates ==
    /\ [](Resolving => NoRepeat(resolver.expanded))
    /\ (resolver.pc = "running") ~> (resolver.pc = "done")

\* A call has returned on a graph where the entry file and an included file include each
\* other and the included file includes itself as well.
C11_Witness ==
    /\ Resolved
    /\ \E f \in ResolverFiles \ {resolver.entry} :
           /\ Includes(resolver.entry, f)
           /\ Includes(f, resolver.entry)
           /\ Includes(f, f)
           /\ f \in Range(resolver.expanded)

\* C12: the list resolveAllIncludes builds holds no file twice and never the entry file.
C12_EachFileOnceNeverEntry ==
    Resolving => /\ NoRepeat(resolver.resolved)
                 /\ resolver.entry \notin Range(resolver.resolved)

\* A call has returned two files, one of which includes the entry file back.
C12_Witness ==
    /\ Resolved
    /\ Len(resolver.resolved) >= 2
    /\ \E f \in Range(resolver.resolved) : Includes(f, resolver.entry)

\* The files at most n include hops away from `from`, through files that exist.
RECURSIVE WithinHops(_, _, _)
WithinHops(fs, from, n) ==
    IF n = 0 THEN {from}
    ELSE LET near == WithinHops(fs, from, n - 1)
         IN  near \cup {t \in ResolverFiles :
                           /\ fs[t].status = "ok"
                           /\ \E f \in near : t \in Range(ParseIncludes(fs, f))}

\* level1 -> level2 -> level3 -> level4, all four files on disk.
IsChain(fs) ==
    /\ fs["level1.au3"].includes = <<"level2.au3">>
    /\ fs["level2.au3"].includes = <<"level3.au3">>
    /\ fs["level3.au3"].includes = <<"level4.au3">>
    /\ fs["level4.au3"].includes = <<>>
    /\ fs["level4.au3"].status = "ok"

\* C13: with maximum depth d every returned file is at most d include hops from the
\* entry file, no file d hops away has its own directives read, and on the chain
\* level1 -> level2 -> level3 -> level4 with d = 2 the result is level2, level3.
C13_DepthLimit ==
    Resolving =>
        /\ Range(resolver.resolved) \subseteq
               WithinHops(resolver.fs, resolver.entry, resolver.maxDepth)
        /\ Range(resolver.expanded) \subseteq
               WithinHops(resolver.fs, resolver.entry, resolver.maxDepth - 1)
        /\ (Resolved /\ IsChain(resolver.fs) /\ resolver.maxDepth = 2)
               => resolver.resolved = <<"level2.au3", "level3.au3">>

\* The call on the chain with d = 2 has returned, level3 taken at hop 2 and not expanded.
C13_Witness ==
    /\ Resolved
    /\ IsChain(resolver.fs)
    /\ resolver.maxDepth = 2
    /\ "level3.au3" \in Range(resolver.resolved)
    /\ "level3.au3" \notin Range(resolver.expanded)

\* With the default depth the traversal returns what ResolveAllIncludes computes.
ResolverAgrees ==
    (Resolved /\ resolver.maxDepth = maxIncludeDepth)
        => resolver.resolved = ResolveAllIncludes(resolver.fs, resolver.entry)

\* ------------------------------------------------------------------ claims on resolveIncludePath

PathCallMade == resolver.pc = "ready" /\ resolver.lastCall.made

\* The library candidate at position i of the configured order.
LibraryCandidateAt(i) ==
    PathJoin(resolver.autoitIncludePaths[i], resolver.lastCall.include.path)

CandidateExists(candidate) == resolver.existence[candidate] = "exists"

\* C14: a library include resolves to the candidate of the first configured search
\* path, in configured order, under which the file exists; a relative include to the
\* file beside the including file when it exists; in every other case (no candidate
\* exists, no path is configured, the check fails) the result is null: the call
\* always returns a value.
C14_FirstExistingCandidate ==
    PathCallMade =>
        LET c == resolver.lastCall
            beside == PathJoin(c.sourcePath.dir, c.include.path)
            n == Len(resolver.autoitIncludePaths)
        IN  /\ c.result \in Candidates \cup {NoPath}
            /\ c.include.type = "relative" =>
                   c.result = IF CandidateExists(beside) THEN beside ELSE NoPath
            /\ c.include.type = "library" =>
                   /\ (c.result = NoPath) <=> (\A i \in 1 .. n : ~CandidateExists(LibraryCandidateAt(i)))
                   /\ \A i \in 1 .. n :
                          (/\ CandidateExists(LibraryCandidateAt(i))
                           /\ \A j \in 1 .. i - 1 : ~CandidateExists(LibraryCandidateAt(j)))
                              => c.result = LibraryCandidateAt(i)

\* A library include was resolved with two different search paths configured that both
\* hold the file: the call returned the one under the first path.
C14_Witness ==
    /\ PathCallMade
    /\ resolver.lastCall.include.type = "library"
    /\ Len(resolver.autoitIncludePaths) = 2
    /\ resolver.autoitIncludePaths[1] # resolver.autoitIncludePaths[2]
    /\ CandidateExists(LibraryCandidateAt(1))
    /\ CandidateExists(LibraryCandidateAt(2))
    /\ resolver.lastCall.result = LibraryCandidateAt(1)

\* A call returned null because the only check it made failed.
FailedCheckReturnsNull ==
    /\ PathCallMade
    /\ resolver.lastCall.include.type = "relative"
    /\ resolver.existence[PathJoin(resolver.lastCall.sourcePath.dir,
                                   resolver.lastCall.include.path)] = "error"
    /\ resolver.lastCall.result = NoPath

\* ------------------------------------------------------------------ claims on buildNestedMapStructure

Built == "built" \in DOMAIN lastQuery

\* The assignments to the map whose structure was built.
BuiltAssignments == ParseKeyAssignments(parser.lines, lastQuery.built)

Prefixes(keys) == {SubSeq(keys, 1, k) : k \in 1 .. Len(keys)}

\* The key paths an assignment mentions: every prefix of its chain, or its one key.
MentionedPaths(assignment) ==
    IF Len(assignment.nested) > 0 THEN Prefixes(assignment.nested) ELSE {<<assignment.key>>}

\* The text is one assignment with a chain of two or more literal keys.
SingleChain ==
    /\ Len(parser.lines) = 1
    /\ parser.lines[1].kind = "bracket"
    /\ Len(parser.lines[1].keys) >= 2

\* C15: the structure built from a single assignment with a chain of n >= 2 literal keys
\* is one path n levels deep, a node for each prefix of the chain and no other, where
\* the node of the whole chain is the only one marked isLeaf.
C15_SingleChainOnePath ==
    (Built /\ SingleChain) =>
        LET keys == parser.lines[1].keys
            tree == lastQuery.result
        IN  /\ tree # Thrown
            /\ DOMAIN tree = Prefixes(keys)
            /\ \A q \in DOMAIN tree : /\ tree[q].key = q[Len(q)]
                                      /\ tree[q].isLeaf <=> (Len(q) = Len(keys))

\* The first assignment that mentions a key path.
FirstMention(assignments, path) ==
    assignments[CHOOSE i \in 1 .. Len(assignments) :
                    /\ path \in MentionedPaths(assignments[i])
                    /\ \A j \in 1 .. i - 1 : path \notin MentionedPaths(assignments[j])]

\* C16: the structure built from any sequence of assignments to one map has a node for
\* every key path the assignments mention and for no other, and each node carries the
\* line and the notation of the first assignment that mentions its key path.
C16_OneNodePerKeyPath ==
    Built =>
        LET assignments == BuiltAssignments
            tree == lastQuery.result
        IN  /\ tree # Thrown
            /\ DOMAIN tree = UNION {MentionedPaths(assignments[i]) : i \in 1 .. Len(assignments)}
            /\ \A q \in DOMAIN tree :
                   /\ tree[q].line = FirstMention(assignments, q).line
                   /\ tree[q].notation = FirstMention(assignments, q).notation

\* ------------------------------------------------------------------ claims on getMapStructureWithIncludes

\* The tree of a file: what getMapStructure returns for it, empty when it is not cached.
TreeOf(f) == GetMapStructure(fileParsers, f, call.mapName)

\* The query's own file followed by the resolved includes, in merge order.
MergeOrder == <<call.filePath>> \o call.includedFiles

\* The first file in merge order whose tree has the key path.
FirstWith(q) ==
    MergeOrder[CHOOSE i \in 1 .. Len(MergeOrder) :
                   /\ q \in DOMAIN TreeOf(MergeOrder[i])
                   /\ \A j \in 1 .. i - 1 : q \notin DOMAIN TreeOf(MergeOrder[j])]

\* C17: the tree getMapStructureWithIncludes returns has as key paths the union of the
\* key paths of the local tree and of the tree of every resolved include; a key path
\* several of them define keeps the node of the first in merge order (the local file
\* first), with the children of all of them below it; and merging a tree with itself
\* changes nothing.
C17_StructureIsUnion ==
    (Done /\ call.kind = "structure") =>
        LET tree == call.currentStructure IN
        /\ DOMAIN tree = UNION {DOMAIN TreeOf(MergeOrder[i]) : i \in 1 .. Len(MergeOrder)}
        /\ \A q \in DOMAIN tree : tree[q] = TreeOf(FirstWith(q))[q]
        /\ MergeMapStructures(tree, tree) = tree
        /\ \A i \in 1 .. Len(MergeOrder) :
               MergeMapStructures(TreeOf(MergeOrder[i]), TreeOf(MergeOrder[i]))
                   = TreeOf(MergeOrder[i])

\* main.au3 with both includes merged: "age" is defined by main.au3 and by lib.au3 and
\* keeps the node of main.au3; "addr" is defined by lib.au3 and by util.au3, with a
\* different child in each, and has both children.
C17_Witness ==
    /\ Done
    /\ call.kind = "structure"
    /\ call.filePath = "main.au3"
    /\ call.includedFiles = <<"lib.au3", "util.au3">>
    /\ call.failed = {}
    /\ <<"age">> \in DOMAIN TreeOf("lib.au3")
    /\ <<"age">> \in DOMAIN TreeOf("main.au3")
    /\ call.currentStructure[<<"age">>] = TreeOf("main.au3")[<<"age">>]
    /\ call.currentStructure[<<"age">>] # TreeOf("lib.au3")[<<"age">>]
    /\ <<"addr", "zip">> \in DOMAIN TreeOf("lib.au3")
    /\ <<"addr", "name">> \in DOMAIN TreeOf("util.au3")
    /\ {<<"addr", "zip">>, <<"addr", "name">>} \subseteq DOMAIN call.currentStructure

\* ------------------------------------------------------------------ claims on parseFunctionBoundaries

FunctionsParsed == "parsed" \in DOMAIN lastQuery

\* The kind of the 0-based line n of the text.
KindAt(n) == parser.lines[n + 1].kind

IsMarker(n) == KindAt(n) \in {"func", "endfunc"}

\* The 0-based lines of the text.
LineNumbers == 0 .. Len(parser.lines) - 1

\* A Func line that is closed: an EndFunc line follows it with no Func line and no
\* EndFunc line in between.
ClosedAt(s, e) ==
    /\ s < e
    /\ KindAt(s) = "func"
    /\ KindAt(e) = "endfunc"
    /\ \A n \in s + 1 .. e - 1 : ~IsMarker(n)

\* C18: every emitted boundary is terminated (0 <= startLine <= endLine, endLine never
\* -1) and the emitted boundaries follow each other without overlap; the boundaries
\* emitted are exactly the Func lines closed by an EndFunc line before any other Func
\* line, so that a Func line with no EndFunc line after it, or with another Func line
\* first, is dropped and an EndFunc line with no open function emits nothing.
C18_BoundariesTerminatedDisjoint ==
    FunctionsParsed =>
        LET functions == parser.functions
            n == Len(functions)
        IN  /\ \A k \in 1 .. n :
                   /\ 0 <= functions[k].startLine
                   /\ functions[k].startLine <= functions[k].endLine
                   /\ functions[k].endLine # -1
                   /\ functions[k].endLine \in LineNumbers
                   /\ ClosedAt(functions[k].startLine, functions[k].endLine)
                   /\ functions[k].name = parser.lines[functions[k].startLine + 1].fname
            /\ \A j \in 1 .. n : \A k \in 1 .. n :
                   j < k => functions[j].endLine < functions[k].startLine
            /\ \A s \in LineNumbers : \A e \in LineNumbers :
                   ClosedAt(s, e) =>
                       \E k \in 1 .. n : /\ functions[k].startLine = s
                                         /\ functions[k].endLine = e

\* Func F, Func G, EndFunc, EndFunc, Func F: only G is emitted, from line 1 to line 2.
C18_Witness ==
    /\ FunctionsParsed
    /\ Len(parser.lines) = 5
    /\ [i \in 1 .. 5 |-> parser.lines[i].kind] = <<"func", "func", "endfunc", "endfunc", "func">>
    /\ parser.lines[2].fname = "G"
    /\ Len(parser.functions) = 1
    /\ parser.functions[1].name = "G"
    /\ parser.functions[1].startLine = 1
    /\ parser.functions[1].endLine = 2

\* ------------------------------------------------------------------ claims on workspace symbols

SymbolsLoaded == symbols # NoSymbols

\* The index builds whose file list is known.
StartedBuilds == {t \in DOMAIN symbols.builds : symbols.builds[t].pc # "findFiles"}

\* The first maxFiles scripts of the workspace.
FirstMaxFiles == Elements(Slice(WorkspaceScripts, 0, symbols.maxFiles))

\* Every index build works on the first maxFiles scripts only, and a build that ran to
\* its end without being cancelled has opened every one of them.
BuildsFirstMaxFiles ==
    \A t \in StartedBuilds :
        LET b == symbols.builds[t] IN
        /\ Elements(b.files) = FirstMaxFiles
        /\ b.opened \subseteq FirstMaxFiles
        /\ b.results \subseteq b.opened
        /\ (b.pc = "done" /\ t \notin symbols.cancelled) => b.opened = FirstMaxFiles

\* C19: with more scripts in the workspace than the configured maximum M, an index build
\* processes the first M scripts only, and the truncation warning has been shown exactly
\* once as soon as a build has cut the list, however many requests and builds follow.
C19_TruncationWarnedOnce ==
    (SymbolsLoaded /\ symbols.maxFiles < Len(WorkspaceScripts)) =>
        /\ BuildsFirstMaxFiles
        /\ StartedBuilds # {} => symbols.warnings = 1

\* The position of a file in the list of a build and the batch it belongs to, from 0.
PositionIn(files, f) == CHOOSE k \in 1 .. Len(files) : files[k] = f
BatchOf(b, f) == (PositionIn(b.files, f) - 1) \div b.batchSize

\* C20: in every processBatch call at most batchSize files are in flight; a file of
\* batch k is opened only after the call has yielded k times, once after each earlier
\* batch, and when every file of the earlier batches has settled, opened or not.
C20_BatchesInTurn ==
    SymbolsLoaded =>
        \A t \in DOMAIN symbols.builds :
            LET b == symbols.builds[t] IN
            /\ Cardinality(b.inflight) <= b.batchSize
            /\ \A f \in b.opened :
                   /\ b.openedAfter[f] = BatchOf(b, f)
                   /\ \A g \in Elements(b.files) :
                          BatchOf(b, g) < BatchOf(b, f) => g \in b.opened \ b.inflight

\* Three files in batches of two: the first batch has settled, one file opened and one
\* not, the call has yielded once and the third file is in flight.
C20_Witness ==
    /\ SymbolsLoaded
    /\ \E t \in DOMAIN symbols.builds :
           LET b == symbols.builds[t] IN
           /\ b.batchSize = 2
           /\ Len(b.files) = 3
           /\ b.pc = "batch"
           /\ b.inflight = {3}
           /\ b.results = {2}
           /\ b.yields = 1

\* ------------------------------------------------------------------ claims on reachability

UpdateOps == {"updateFile", "debounced", "immediate"}

\* The text of the file as the service was last told it, among the first n events of
\* the path: the source of its last update call.
RECURSIVE TextTold(_, _)
TextTold(path, n) ==
    IF n = 0 THEN NoSource
    ELSE IF history[path][n].op \in UpdateOps THEN history[path][n].source
    ELSE TextTold(path, n - 1)

\* A Parser was cached for the path at some point of its first n events.
TrackedBy(path, n) == \E j \in 1..n : history[path][j].installed # NoSource


\* The query was the first thing to happen to its path after an updateConfiguration
\* that found the path tracked.
QueriedNextAfterReconfiguration ==
    /\ lastQuery # NoQuery
    /\ lastQuery.at >= 1
    /\ history[lastQuery.filePath][lastQuery.at].op = "updateConfiguration"
    /\ TrackedBy(lastQuery.filePath, lastQuery.at)

\* Right after updateConfiguration no path has a cached Parser.
NoParserAfterReconfiguration ==
    (\A p \in Paths : history[p] # <<>> /\ history[p][Len(history[p])].op = "updateConfiguration")
        => \A p \in Paths : fileParsers[p] = NoParser

\* A query made after an updateConfiguration is answered from a Parser installed
\* after it, if from any.
AnsweredFromLaterParser ==
    (lastQuery # NoQuery /\ lastQuery.from # NoParser) =>
        \A k \in 1..lastQuery.at :
            history[lastQuery.filePath][k].op = "updateConfiguration" =>
                \E j \in (k + 1)..lastQuery.at :
                    history[lastQuery.filePath][j].installed = lastQuery.from.lines

\* C27: right after updateConfiguration no path has a cached Parser, no later query is
\* answered from a Parser installed before it, and the next access to a file that was
\* tracked is answered from a full re-parse of that file: it returns what a Parser of
\* the file's text returns.
C27_ReconfigurationForcesReparse ==
    /\ NoParserAfterReconfiguration
    /\ AnsweredFromLaterParser
    /\ QueriedNextAfterReconfiguration =>
           lastQuery.result =
               GetKeysForMapAtLine(TextTold(lastQuery.filePath, lastQuery.at),
                                   lastQuery.mapName, lastQuery.line, TRUE)

\* ------------------------------------------------------------------ claims on concurrent queries

\* The complete texts ever written for a path: the one on disk, which the on-demand
\* reads hand to updateFile, and the editor's.
TextsOf(path) == {DiskText(path), EditedText(path)}

\* C28: however the reads of two concurrent include-aware queries and the editor's
\* updateFile calls interleave, the Parser cached for a path is a whole Parser (its text,
\* and its function boundaries either not yet computed or those of that text) of one
\* complete text written for that same path, namely of the text of the last updateFile
\* made for the path, and a path nobody wrote has no Parser.
C28_ParserCacheNeverCorrupted ==
    \A p \in Paths :
        IF fileParsers[p] = NoParser THEN history[p] = <<>>
        ELSE /\ fileParsers[p].lines \in TextsOf(p)
             /\ fileParsers[p] \in {MapParser(fileParsers[p].lines),
                                    EnsureFunctions(MapParser(fileParsers[p].lines))}
             /\ history[p] # <<>>
             /\ fileParsers[p].lines = history[p][Len(history[p])].installed

\* Both queries waited for lib.au3 when the editor wrote its text; then both reads
\* settled, each writing the text on disk over it.
C28_Witness ==
    /\ Len(history["lib.au3"]) = 3
    /\ history["lib.au3"][1].source = LibEdited
    /\ history["lib.au3"][2].source = LibText
    /\ history["lib.au3"][3].source = LibText
    /\ fileParsers["lib.au3"].lines = LibText
    /\ \A q \in Queries : call[q].pc # "idle"

\* ------------------------------------------------------------------ claims on the caches

\* C25: after any sequence of completion requests and document-close events the
\* include-completion cache holds at most MAX_CACHE_SIZE entries.
C25_CacheBounded == Len(completion.includeCache) <= MAX_CACHE_SIZE

\* One document more than the cache holds was asked about: the cache is full, the
\* document asked about again in between is still cached and the second one is not.
C25_Witness ==
    /\ completion.opened = NumDocuments
    /\ Len(completion.includeCache) = MAX_CACHE_SIZE
    /\ MapHas(completion.includeCache, 1)
    /\ ~MapHas(completion.includeCache, 2)

\* C29: the caches are soft state; for the completion cache, a request is answered the
\* same whether the document's entry is there or was dropped: what a hit returns is
\* what a fresh computation for the current include list returns.
C29_CachesAreSoftState ==
    completion.last # NoRequest =>
        completion.last.returned = BuildCompletions(completion.last.includesCheck)

\* ------------------------------------------------------------------ claims on document symbols

\* The lines the symbols returned, and their children, start at.
LinesOfSymbols(syms) ==
    {syms[k].line : k \in 1..Len(syms)}
        \cup UNION {{c.line : c \in syms[k].children} : k \in 1..Len(syms)}

\* C26: provideDocumentSymbols returns no symbol that starts at a line at or beyond the
\* configured maximum line count, be it a function, a variable, a region, a Map
\* variable or one of its keys.
C26_SymbolsWithinMaxLines ==
    document.calls > 0 => \A l \in LinesOfSymbols(document.symbols) : l < document.maxLines

\* ------------------------------------------------------------------ claims on cancellation and failures

\* What holds of a request whose token is cancelled: its processBatch has opened no
\* file since (the files in flight then settle and count), the request resolves with
\* nothing and has not written to the cache.
CancelledRequestStops(t) ==
    /\ t \in DOMAIN symbols.builds =>
           LET b == symbols.builds[t] IN
           /\ b.opened = symbols.cancelledAt[t]
           /\ b.pc = "done" => b.inflight = {} /\ b.results \cup b.failed = b.opened
    /\ t \in DOMAIN symbols.answers => symbols.answers[t] = {} /\ t \notin symbols.wrote

\* C21: once its token is cancelled, a request starts no further batch, while the batch
\* already started runs to completion; the request whose timer has fired is resolved in
\* the end, with an empty list, and its call has left the cache alone.
C21_CancellationHonoured ==
    /\ [](\A t \in symbols.cancelled : CancelledRequestStops(t))
    /\ \A t \in Tokens :
           (t \in symbols.cancelled /\ t \in DOMAIN symbols.lookups)
               ~> (t \in DOMAIN symbols.answers /\ symbols.answers[t] = {})

\* A request was cancelled while the first of its batches was in flight: the batch has
\* settled with a result, the other files were never opened, the request is resolved
\* and the cache is as empty as before.
C21_Witness ==
    \E t \in symbols.cancelled :
        /\ t \in DOMAIN symbols.builds
        /\ symbols.builds[t].pc = "done"
        /\ symbols.builds[t].results # {}
        /\ symbols.builds[t].opened # Elements(symbols.builds[t].files)
        /\ t \in DOMAIN symbols.answers
        /\ DOMAIN symbols.symbolsCache = {}

\* The files of a processBatch call that count: those opened and settled without a
\* failure of their own.
FailuresSkipped(b) ==
    /\ b.results \cap b.failed = {}
    /\ b.pc \in {"yield", "returned", "done"} => b.results = b.opened \ b.failed

\* C22: a file that cannot be opened or parsed is the only one skipped: the results of
\* a processBatch call are the files it opened but for the failed ones, a call that is
\* not cancelled opens every file of its list, and every call comes to its end.
C22_FailureSkipsOnlyThatFile ==
    /\ [](\A t \in DOMAIN symbols.builds :
              LET b == symbols.builds[t] IN
              /\ FailuresSkipped(b)
              /\ (b.pc = "done" /\ t \notin symbols.cancelled) =>
                     /\ b.opened = Elements(b.files)
                     /\ \A f \in b.results : f \in DOMAIN symbols.symbolsCache)
    /\ \A t \in Tokens :
           (t \in DOMAIN symbols.builds)
               ~> (t \in DOMAIN symbols.builds /\ symbols.builds[t].pc = "done")

\* Three files in batches of two: the second file failed, the first one, of the same
\* batch, and the third one, of the next batch, are in the results and in the cache.
C22_Witness ==
    \E t \in DOMAIN symbols.builds :
        LET b == symbols.builds[t] IN
        /\ b.pc = "done"
        /\ b.batchSize = 2
        /\ b.failed = {2}
        /\ b.results = {1, 3}
        /\ DOMAIN symbols.symbolsCache = {1, 3}

\* ------------------------------------------------------------------ claims on the search debounce

\* C24: of the provideWorkspaceSymbols calls made while the timer of an earlier one is
\* pending only the last is executed: at most one timer is pending, a superseded call
\* never looks the cache up, builds no index and is never resolved, the last call waits
\* or has been executed, and the lookup works with the query of the call that owns the
\* token.
C24_OnlyLastCallRuns ==
    /\ Cardinality(symbols.pending) <= 1
    /\ \A t \in symbols.superseded :
           /\ t \notin DOMAIN symbols.lookups
           /\ t \notin DOMAIN symbols.builds
           /\ t \notin DOMAIN symbols.answers
    /\ \A t \in DOMAIN symbols.queries \ symbols.superseded :
           t \in symbols.pending \/ t \in DOMAIN symbols.lookups
    /\ \A t \in DOMAIN symbols.lookups : symbols.lookups[t] = symbols.queries[t]

\* Two calls within the window with different queries: the second one was executed
\* with its own query and is resolved, the first one never ran.
C24_Witness ==
    /\ symbols.superseded = {1}
    /\ DOMAIN symbols.lookups = {2}
    /\ symbols.queries[1] # symbols.queries[2]
    /\ symbols.lookups[2] = symbols.queries[2]
    /\ DOMAIN symbols.answers = {2}

\* ------------------------------------------------------------------ claims on the file watcher

\* The entry of a file in the cache.
Entry(cache, file) == IF file \in DOMAIN cache THEN <<cache[file]>> ELSE <<>>

\* A handler of the watcher leaves the entries of the other files as they were.
OtherEntriesKept ==
    \A g \in (1 .. NumFiles) \ {symbols'.lastEvent} :
        Entry(symbols'.symbolsCache, g) = Entry(symbols.symbolsCache, g)

\* C23 as stated: an event for f changes at most the entry of f, and no event empties
\* the cache.
C23_NoEventEmptiesCache ==
    [][/\ OtherEntriesKept
       /\ DOMAIN symbols.symbolsCache # {} => DOMAIN symbols'.symbolsCache # {}]_vars

\* C23: an event for f changes at most the entry of f, a delete event for f removes
\* only the entry of f, and the cache becomes empty only when the entry that goes was
\* the only one.
C23_WatcherTouchesOneEntry ==
    [][/\ OtherEntriesKept
       /\ (DOMAIN symbols.symbolsCache # {} /\ DOMAIN symbols'.symbolsCache = {}) =>
              DOMAIN symbols.symbolsCache = {symbols'.lastEvent}]_vars

\* The second script was deleted and the third one changed: the first one has the
\* entry the index build gave it, the third one its new symbols.
C23_Witness ==
    /\ symbols.lastEvent = 2
    /\ DOMAIN symbols.symbolsCache = {1, 3}
    /\ symbols.symbolsCache[1] = 0
    /\ symbols.symbolsCache[3] = 1
    /\ symbols.events = 2

\* ------------------------------------------------------------------ claims on function keys

\* The keys assigned to the parameter in the body of the function (its Func line to its
\* EndFunc line).
KeysOfParameter(func, parameter) ==
    {a.key : a \in {b \in SeqToSet(ParseKeyAssignments(QLines, parameter)) :
                        b.line >= func.startLine /\ b.line <= func.endLine}}

\* The keys a call line hands to the name: for every position i at which the name is
\* passed and every function of the called name with more than i parameters, the keys
\* of the i-th parameter.
KeysOfCall(line, mapName) ==
    UNION {KeysOfParameter(func, func.parameters[i]) :
             <<func, i>> \in {<<g, j>> \in SeqToSet(ParseFunctionBoundaries(QLines))
                                           \X (1..Len(line.args)) :
                                  /\ g.name = line.fname
                                  /\ line.args[j] = mapName
                                  /\ j <= Len(g.parameters)}}

\* The keys the calls before the query line hand to the queried name.
KeysOfCallsBefore ==
    UNION {KeysOfCall(QLines[c], lastQuery.mapName) :
             c \in {b \in 1..Len(QLines) : /\ QLines[b].kind = "call"
                                           /\ b - 1 < lastQuery.targetLine}}

\* C31: functionKeys holds a key exactly when includeFunctionKeys is set, a declaration
\* of the name is in scope, and a call line strictly before targetLine passes the name
\* as its i-th argument to a function of the file with more than i parameters whose
\* i-th parameter is assigned that key in the function's body; each key is listed once,
\* and functionKeys is empty when the flag is cleared.
C31_FunctionKeysOfEveryArgument ==
    Queried =>
        LET functionKeys == lastQuery.result.functionKeys
            listed == {functionKeys[k].key : k \in 1..Len(functionKeys)}
        IN  /\ NoDuplicates(functionKeys)
            /\ listed = IF lastQuery.includeFunctionKeys /\ QWinner # NoDecl
                        THEN KeysOfCallsBefore ELSE {}

\* ------------------------------------------------------------------ claims on eviction

\* C32: when an insertion makes the completion cache exceed its maximum, the entry
\* evicted is the one whose last insertion or access is the oldest, a hit and a
\* recomputation after a change of the include list both counting as an access, and it
\* is never the entry of the document just served.
C32_EvictsLeastRecentlyUsed ==
    (completion.last # NoRequest /\ completion.last.evicted # 0) =>
        /\ completion.last.evicted = completion.last.oldest
        /\ completion.last.evicted # completion.last.doc

\* ------------------------------------------------------------------ claims on document events

\* The pending re-parse timers of a path.
UpdateTimersOf(path) == {t \in extension.pending : t.path = path}

\* The timer table holds exactly the paths with a pending timer, one timer each.
TimerTableExact ==
    \A p \in EditedPaths :
        IF extension.updateTimers[p] = NoTimer
        THEN UpdateTimersOf(p) = {}
        ELSE UpdateTimersOf(p) = {[id |-> extension.updateTimers[p], path |-> p]}

\* What the last event left for its path.
LastEventSettled ==
    LET e == extension.lastEvent IN
    /\ e.op = "change" => extension.updateTimers[e.path] = extension.nextId - 1
    /\ e.op \in {"fire", "save", "close"} => UpdateTimersOf(e.path) = {}
    /\ e.op = "save" => fileParsers[e.path] = MapParser(extension.text[e.path])

\* A step touches the timer of the path of its event only.
OnlyOwnTimer ==
    \A p \in EditedPaths :
        p # extension'.lastEvent.path =>
            /\ extension'.updateTimers[p] = extension.updateTimers[p]
            /\ {t \in extension'.pending : t.path = p} = UpdateTimersOf(p)

\* C33: at most one re-parse timer is pending per path and the timer table holds exactly
\* the paths with a pending timer; a change event replaces the timer of its own path
\* only, a fired timer removes its own entry, after a save or a close no timer of the
\* path is pending, and after a save the tracked Parser is built from the saved text.
C33_OneTimerPerPath ==
    /\ [](TimerTableExact /\ LastEventSettled)
    /\ [][OnlyOwnTimer]_vars

\* A change replaced a pending timer of main.au3, lib.au3 has a timer pending, and
\* main.au3 was then saved with the second text.
C33_Witness ==
    /\ extension.lastEvent = DocumentEvent("save", "main.au3")
    /\ extension.nextId = 4
    /\ extension.updateTimers["lib.au3"] # NoTimer
    /\ fileParsers["main.au3"] = MapParser(EditText(2))

\* ------------------------------------------------------------------ claims on key symbols

\* The key chains the document assigns to the Map, each with its line.
ChainsOf(mapName) ==
    {[chain |-> IF Len(a.nested) > 0 THEN a.nested ELSE <<a.key>>, line |-> a.line] :
        a \in SeqToSet(ParseKeyAssignments(document.lines, mapName))}

\* The assignments that go through the key path.
Through(chains, path) ==
    {c \in chains : Len(c.chain) >= Len(path) /\ SubSeq(c.chain, 1, Len(path)) = path}

\* The key symbols listed for the node at `prefix` are the distinct keys assigned under
\* it, once each, in ascending order of the line of their first assignment, and so at
\* every level below.
RECURSIVE KeysListed(_, _, _)
KeysListed(keys, prefix, chains) ==
    LET assigned == {c.chain[Len(prefix) + 1] :
                        c \in {b \in Through(chains, prefix) : Len(b.chain) > Len(prefix)}}
        First(key) == CHOOSE l \in {c.line : c \in Through(chains, Append(prefix, key))} :
                          \A c \in Through(chains, Append(prefix, key)) : l <= c.line
    IN  /\ {keys[k].key : k \in 1..Len(keys)} = assigned
        /\ Len(keys) = Cardinality(assigned)
        /\ \A i, j \in 1..Len(keys) : i < j => First(keys[i].key) < First(keys[j].key)
        /\ \A k \in 1..Len(keys) :
               KeysListed(keys[k].children, Append(prefix, keys[k].key), chains)

\* C34: the key children of a Map symbol are, at every nesting level, the distinct keys
\* assigned, once each, in ascending order of the line on which each key is first
\* assigned.
C34_KeysInOrderOfFirstAssignment ==
    \A k \in 1..Len(document.symbols) :
        document.symbols[k].detail = "Map" =>
            KeysListed(document.symbols[k].keys, <<>>, ChainsOf(document.symbols[k].name))

\* ------------------------------------------------------------------ claims on leaves

\* C35: in every tree buildNestedMapStructure returns, whatever the order of the flat and
\* the nested assignments to a key, a node is marked isLeaf exactly when it has no
\* children.
C35_LeafIffNoChildren ==
    (Built /\ lastQuery.result # Thrown) =>
        \A q \in DOMAIN lastQuery.result :
            lastQuery.result[q].isLeaf <=> (ChildPaths(lastQuery.result, q) = {})

\* ------------------------------------------------------------------ claims on removal

\* The path was removed, by removeFile or by clear, and no update call for it was
\* issued since.
RemovedAndNotUpdatedSince(p) ==
    \E i \in 1..Len(history[p]) :
        /\ history[p][i].op \in {"removeFile", "clear"}
        /\ \A j \in (i + 1)..Len(history[p]) : history[p][j].op \notin UpdateOps

\* C36: after removeFile(path) or clear() the path stays untracked, its queries
\* returning empty buckets and an empty structure, until an update call for the path is
\* issued after the removal; a debounced update issued before the removal and still
\* pending does not install a Parser for it.
C36_RemovedStaysUntracked ==
    \A p \in Paths :
        RemovedAndNotUpdatedSince(p) =>
            /\ fileParsers[p] = NoParser
            /\ GetKeysForMap(fileParsers, p, "$m", Infinity) = EmptyKeys
            /\ GetMapStructure(fileParsers, p, "$m") = EmptyStructure

\* ------------------------------------------------------------------ claims on the index and the watcher

\* The files some handler or index build could not open, or found deleted.
Unopened ==
    symbols.unopened \cup UNION {symbols.builds[t].failed : t \in DOMAIN symbols.builds}

\* C37: whenever a request completes without cancellation the cache holds an entry for
\* every file of the (possibly truncated) workspace file set that can be opened,
\* whatever events of the watcher were handled before the request.  The requests ask
\* for every symbol, so that a request's answer shows the cache as it completed.
C37_IndexBuiltOnDemand ==
    \A token \in DOMAIN symbols.answers :
        token \notin symbols.cancelled =>
            \A f \in Elements(Slice(WorkspaceScripts, 0, symbols.maxFiles)) \ Unopened :
                \E a \in symbols.answers[token] : a.file = f

\* No timer, no index build and no update of a file's symbols is in flight.
Quiescent ==
    /\ symbols.pending = {}
    /\ \A t \in DOMAIN symbols.builds :
           symbols.builds[t].pc = "done" /\ symbols.builds[t].inflight = {}
    /\ \A f \in 1 .. NumFiles : symbols.updates[f] = 0

\* C38: once all in-flight work has completed, the cache has no entry for a file whose
\* latest event was a delete, and the entry of every other file holds the symbols of the
\* file's latest content.
C38_LatestEventWins ==
    Quiescent =>
        \A f \in 1 .. NumFiles :
            /\ f \in symbols.deleted => f \notin DOMAIN symbols.symbolsCache
            /\ (f \notin symbols.deleted /\ f \in DOMAIN symbols.symbolsCache) =>
                   symbols.symbolsCache[f] = symbols.disk[f]

\* ------------------------------------------------------------------ claims on the returned promise

\* C39: every call to provideWorkspaceSymbols eventually resolves the promise it
\* returned, a call superseded by a later call within the debounce window and a call
\* whose token is cancelled included.
C39_EveryCallResolves ==
    \A token \in Tokens :
        (token \in DOMAIN symbols.queries) ~> (token \in DOMAIN symbols.answers)

====
